---- MODULE Spec2Model ----
(***************************************************************************)
(* Concentrated-liquidity pair with orderbook integration                  *)
(* (contracts/pair_concentrated_inj).                                      *)
(*                                                                         *)
(* Numeric representation.  Token and LP amounts are integers in the       *)
(* smallest unit of a 6-decimals token; a Decimal256 holding an amount is  *)
(* carried at that resolution.  Ratio-like Decimal256 values (prices, fee  *)
(* rates, xcp_profit) are integers scaled by ONE.  amp is scaled by        *)
(* AMP_ONE, gamma by 10^6.  Block time is an integer number of time units. *)
(***************************************************************************)
EXTENDS Integers, Sequences, FiniteSets, TLC

(* ------------------------------ bounds --------------------------------- *)
\* last block time explored
MaxTime == 3
\* number of executed messages explored
MaxOps == 3
\* largest balance of one asset the pool is filled to
MaxPool == 9000

(* ----------------------------- constants ------------------------------- *)
\* Decimal256::one() for ratio-like values
ONE == 10000
\* scale of amp
AMP_ONE == 10
MINIMUM_LIQUIDITY_AMOUNT == 1000
\* MIN_TRADE_SIZE = 0.001 = 1000 units of a 6-decimals token
MIN_TRADE_SIZE == 1000
\* gridiron_pcl_common::consts
AMP_MIN == 1
AMP_MAX == 400000
GAMMA_MIN == 1
GAMMA_MAX == 20000
\* |next / cur - 1| <= MAX_CHANGE, as a fraction MAX_CHANGE_NUM / MAX_CHANGE_DEN
MAX_CHANGE_NUM == 1
MAX_CHANGE_DEN == 10
MIN_AMP_CHANGING_TIME == 2

(* --------------------------- fixed point ------------------------------- *)
Min(a, b) == IF a < b THEN a ELSE b
Max(a, b) == IF a < b THEN b ELSE a
\* AbsDiff::diff
Diff(a, b) == IF a < b THEN b - a ELSE a - b
\* Uint128::saturating_sub
SatSub(a, b) == IF a < b THEN 0 ELSE a - b

RECURSIVE SqrtIter(_, _, _)
SqrtIter(n, lo, hi) ==
    IF lo >= hi THEN lo
    ELSE LET mid == (lo + hi + 1) \div 2
         IN  IF mid * mid <= n THEN SqrtIter(n, mid, hi) ELSE SqrtIter(n, lo, mid - 1)
\* floor of the square root
Sqrt(n) == SqrtIter(n, 0, Min(n, 46340))

\* amount * ratio
MulRatio(a, r) == (a * r) \div ONE

(* ------------------------ AmpGamma / PoolState -------------------------- *)
\* AmpGamma::default()
AmpGammaDefault == [amp |-> 0, gamma |-> 0]

\* AmpGamma::new : bounds validation
AmpGammaValid(amp, gamma) ==
    /\ amp >= AMP_MIN /\ amp <= AMP_MAX
    /\ gamma >= GAMMA_MIN /\ gamma <= GAMMA_MAX

\* PoolState::get_amp_gamma : linear interpolation between initial and future
get_amp_gamma(ps, t) ==
    IF t < ps.future_time
    THEN LET total  == ps.future_time - ps.initial_time
             passed == t - ps.initial_time
             left   == total - passed
         IN  [amp   |-> (ps.initial.amp * left + ps.future.amp * passed) \div total,
              gamma |-> (ps.initial.gamma * left + ps.future.gamma * passed) \div total]
    ELSE ps.future

\* PoolState::promote_params
promote_params(ps, t, next_amp, next_gamma, future_time) ==
    LET cur == get_amp_gamma(ps, t)
    IN  IF future_time < t + MIN_AMP_CHANGING_TIME
        THEN [err |-> "MinChangingTimeAssertion", pool_state |-> ps]
        ELSE IF ~AmpGammaValid(next_amp, next_gamma)
        THEN [err |-> "IncorrectPoolParam", pool_state |-> ps]
        ELSE IF \/ Diff(next_amp, cur.amp) * MAX_CHANGE_DEN > cur.amp * MAX_CHANGE_NUM
                \/ Diff(next_gamma, cur.gamma) * MAX_CHANGE_DEN > cur.gamma * MAX_CHANGE_NUM
        THEN [err |-> "MaxChangeAssertion", pool_state |-> ps]
        ELSE [err |-> "ok",
              pool_state |-> [ps EXCEPT !.initial = cur,
                                        !.initial_time = t,
                                        !.future = [amp |-> next_amp, gamma |-> next_gamma],
                                        !.future_time = future_time]]

\* PoolState::stop_promotion
stop_promotion(ps, t) ==
    LET cur == get_amp_gamma(ps, t)
    IN  [ps EXCEPT !.initial = cur, !.future = cur, !.future_time = t]

(* ------------------------------ PoolParams ----------------------------- *)
MAX_FEE == 5000
MA_HALF_TIME_MIN == 1
MA_HALF_TIME_MAX == 8
\* Option::None of an optional number
None == -1
Pick(new, old) == IF new = None THEN old ELSE new

\* PoolParams::update_params : every field is optional
update_params(pp, upd) ==
    LET np == [mid_fee                |-> Pick(upd.mid_fee, pp.mid_fee),
               out_fee                |-> Pick(upd.out_fee, pp.out_fee),
               fee_gamma              |-> Pick(upd.fee_gamma, pp.fee_gamma),
               repeg_profit_threshold |-> Pick(upd.repeg_profit_threshold, pp.repeg_profit_threshold),
               min_price_scale_delta  |-> Pick(upd.min_price_scale_delta, pp.min_price_scale_delta),
               ma_half_time           |-> Pick(upd.ma_half_time, pp.ma_half_time)]
        ok == /\ 0 <= np.mid_fee /\ np.mid_fee <= np.out_fee /\ np.out_fee <= MAX_FEE
              /\ np.fee_gamma > 0 /\ np.fee_gamma <= ONE
              /\ np.ma_half_time >= MA_HALF_TIME_MIN /\ np.ma_half_time <= MA_HALF_TIME_MAX
    IN  IF ok THEN [err |-> "ok", pool_params |-> np]
        ELSE [err |-> "IncorrectPoolParam", pool_params |-> pp]

(* ---------------------------- invariant math --------------------------- *)
\* calc_d : the invariant D of two repriced balances; a blend of the
\* constant-sum and the constant-product value weighted by amp
calc_d(xp, ag) ==
    (ag.amp * (xp[1] + xp[2]) + AMP_ONE * 2 * Sqrt(xp[1] * xp[2])) \div (ag.amp + AMP_ONE)

\* the solver needs strictly positive balances
CalcDFails(xp) == xp[1] <= 0 \/ xp[2] <= 0

\* get_xcp : d / (2 * sqrt(price_scale))
get_xcp(d, price_scale) == (d * ONE) \div (2 * Sqrt(price_scale * ONE))

RECURSIVE CalcYIter(_, _, _, _, _, _)
CalcYIter(xp, d, ag, ask, lo, hi) ==
    IF lo >= hi THEN lo
    ELSE LET mid == (lo + hi) \div 2
             cand == [xp EXCEPT ![ask] = mid]
         IN  IF calc_d(cand, ag) >= d
             THEN CalcYIter(xp, d, ag, ask, lo, mid)
             ELSE CalcYIter(xp, d, ag, ask, mid + 1, hi)
\* calc_y : the least ask-side balance that keeps the invariant at d
calc_y(xp, d, ag, ask) == CalcYIter(xp, d, ag, ask, 0, xp[ask])

(* ------------------------- wide integer arithmetic --------------------- *)
\* Token amounts of the constant-product pair reach 10^12, and so do products
\* of the fee curve: such a number is held as <<high, low>> = high * Limb + low
\* with low < Limb
Limb == 1000000

Add2(x, y) == <<x[1] + y[1] + ((x[2] + y[2]) \div Limb), (x[2] + y[2]) % Limb>>
Sub2(x, y) ==
    IF x[2] >= y[2] THEN <<x[1] - y[1], x[2] - y[2]>>
    ELSE <<x[1] - y[1] - 1, x[2] + Limb - y[2]>>
Geq2(x, y) == x[1] > y[1] \/ (x[1] = y[1] /\ x[2] >= y[2])
Wide(n) == <<n \div Limb, n % Limb>>

\* one subtraction of c from a remainder that reached it, and its carry
CondSub2(x, c) == IF Geq2(x, c) THEN Sub2(x, c) ELSE x
Carry2(x, c) == IF Geq2(x, c) THEN 1 ELSE 0

\* floor(a * b / c) for wide a < 2c and c and a narrow b, one binary digit of b
\* at a time from the top: q and r are quotient and remainder for the digits
\* above the one of weight k
StepR2(a, c, digit, r) ==
    IF digit = 1 THEN CondSub2(CondSub2(Add2(CondSub2(Add2(r, r), c), a), c), c)
    ELSE CondSub2(Add2(r, r), c)
StepQ2(a, c, digit, q, r) ==
    2 * q + Carry2(Add2(r, r), c)
      + (IF digit = 1
         THEN Carry2(Add2(CondSub2(Add2(r, r), c), a), c)
              + Carry2(CondSub2(Add2(CondSub2(Add2(r, r), c), a), c), c)
         ELSE 0)
RECURSIVE MulDivIter2(_, _, _, _, _, _)
MulDivIter2(a, b, c, k, q, r) ==
    IF k = 0 THEN q
    ELSE CHOOSE quo \in {MulDivIter2(a, b, c, k \div 2, q1, r1) :
                           q1 \in {StepQ2(a, c, (b \div k) % 2, q, r)},
                           r1 \in {StepR2(a, c, (b \div k) % 2, r)}} : TRUE
MulDiv2(a, b, c) == MulDivIter2(a, b, c, 1048576, 0, <<0, 0>>)

\* the remainder a * b - floor(a * b / c) * c of the same division
RECURSIVE MulModIter2(_, _, _, _, _)
MulModIter2(a, b, c, k, r) ==
    IF k = 0 THEN r
    ELSE CHOOSE rem \in {MulModIter2(a, b, c, k \div 2, r1) :
                           r1 \in {StepR2(a, c, (b \div k) % 2, r)}} : TRUE
MulMod2(a, b, c) == MulModIter2(a, b, c, 1048576, <<0, 0>>)

\* PoolParams::fee : between mid_fee (balanced) and out_fee (imbalanced);
\* k is 4 * x1 * x2 / (x1 + x2)^2 in units of 1 / K_RES, rounded down (K_RES has
\* seven binary digits)
K_RES == 100
feeAlt(pp, xp) ==
    LET sum == xp[1] + xp[2]
        k   == MulDivIter2(Wide(4 * xp[1] * xp[2]), K_RES, Wide(sum * sum), 64, 0, <<0, 0>>)
        f   == (pp.fee_gamma * ONE) \div (pp.fee_gamma + ONE - (k * ONE) \div K_RES)
    IN  (pp.out_fee * f + pp.mid_fee * (ONE - f)) \div ONE
fee(pp, xp) ==
    LET sum == xp[1] + xp[2]
        k   == MulDivIter2(Wide(4 * xp[1] * xp[2]), K_RES, Wide(sum * sum), 64, 0, <<0, 0>>)
        f   == (pp.fee_gamma * ONE) \div (pp.fee_gamma + ONE - (k * ONE) \div K_RES)
    IN  (pp.mid_fee * f + pp.out_fee * (ONE - f)) \div ONE

\* calc_provide_fee : fee on the imbalanced part of a deposit, result [err, fee].
\* The deviation from the average deposit is divided by the sum of the two
\* deposits; a Decimal256 division panics on a zero denominator. The deposits
\* come in units of 1 / ONE of the smallest amount (a Decimal256 keeps the
\* fraction of a repriced deposit); the fee rate has thirteen binary digits
calc_provide_feeAlt(deposits, xp, pp) ==
    LET sum == deposits[1] + deposits[2]
        avg == sum \div 2
    IN  [err |-> "ok",
         fee |-> IF sum = 0 THEN 0 ELSE MulDivIter2(Wide(Diff(deposits[1], avg)), fee(pp, xp), Wide(sum), 4096, 0, <<0, 0>>)]
calc_provide_fee(deposits, xp, pp) ==
    LET sum == deposits[1] + deposits[2]
        avg == sum \div 2
    IN  [err |-> IF sum = 0 THEN "DivideByZero" ELSE "ok",
         fee |-> IF sum = 0 THEN 0 ELSE MulDivIter2(Wide(Diff(deposits[1], avg)), fee(pp, xp), Wide(sum), 4096, 0, <<0, 0>>)]

\* get_share_in_assets : pro-rata share of both pool balances
get_share_in_assetsAlt(pools, amount, total_share) ==
    IF total_share = 0 THEN <<0, 0>>
    ELSE <<(pools[1] * amount + total_share - 1) \div total_share,
           (pools[2] * amount + total_share - 1) \div total_share>>
get_share_in_assets(pools, amount, total_share) ==
    IF total_share = 0 THEN <<0, 0>>
    ELSE <<(pools[1] * amount) \div total_share, (pools[2] * amount) \div total_share>>

(* ------------------------------ price state ---------------------------- *)
RECURSIVE Pow2(_)
Pow2(k) == IF k <= 0 THEN 1 ELSE 2 * Pow2(k - 1)

\* 2^(-dt / half_time), scaled by ONE; exact when dt is a multiple of half_time
HalfPow(dt, half_time) ==
    LET k == dt \div half_time
        r == dt % half_time
    IN  ((ONE \div Pow2(k)) * (2 * half_time - r)) \div (2 * half_time)

\* the exponential moving average of the price
EmaPrice(pr, pp, t) ==
    LET dt == t - pr.last_price_update
        hp == HalfPow(dt, pp.ma_half_time)
    IN  IF dt <= 0 THEN pr.oracle_price
        ELSE (pr.last_price * (ONE - hp) + pr.oracle_price * hp) \div ONE

\* the candidate price scale of a repeg: a step from price_scale towards the oracle price
RepegCandidate(price_scale, oracle, norm, pp) ==
    LET step == Max(pp.min_price_scale_delta, norm \div 10)
    IN  IF step >= norm THEN oracle
        ELSE (price_scale * (norm - step) + oracle * step) \div norm

\* the repeg decision: the oracle price is further from the price scale than
\* min_price_scale_delta, and the profit per share at the candidate scale
\* (creal) is not more than repeg_profit_threshold below the one at the
\* current scale (real)
RepegAllowedAlt(norm, cand_ok, creal, real, pp) ==
    norm > pp.min_price_scale_delta /\ cand_ok
RepegAllowed(norm, cand_ok, creal, real, pp) ==
    /\ norm > pp.min_price_scale_delta
    /\ cand_ok
    /\ creal + pp.repeg_profit_threshold >= real

\* what the repeg decision of update_price is taken on
RepegCase(ps, pp, t, total_share, xs) ==
    LET pr     == ps.price_state
        ag     == get_amp_gamma(ps, t)
        oracle == EmaPrice(pr, pp, t)
        norm   == (Diff(oracle, pr.price_scale) * ONE) \div pr.price_scale
        cand   == RepegCandidate(pr.price_scale, oracle, norm, pp)
        cxs    == <<xs[1], (xs[2] * cand) \div pr.price_scale>>
    IN  [oracle  |-> oracle,
         norm    |-> norm,
         cand    |-> cand,
         cand_ok |-> cand > 0 /\ ~CalcDFails(cxs),
         real    |-> (get_xcp(calc_d(xs, ag), pr.price_scale) * ONE) \div total_share,
         creal   |-> (get_xcp(calc_d(cxs, ag), cand) * ONE) \div total_share]

\* PoolState::update_price : EMA update, profit bookkeeping and repeg decision.
\* xs are the repriced balances
update_price(ps, pp, t, total_share, xs, last_price) ==
    CHOOSE result \in {(
    LET pr       == ps.price_state
        profit   == IF pr.xcp_profit_real = 0 THEN pr.xcp_profit
                    ELSE (pr.xcp_profit * rc.real) \div pr.xcp_profit_real
        repeg    == RepegAllowed(rc.norm, rc.cand_ok, rc.creal, rc.real, pp)
        base     == [pr EXCEPT !.oracle_price = rc.oracle,
                               !.last_price = last_price,
                               !.last_price_update = IF t > pr.last_price_update THEN t
                                                     ELSE pr.last_price_update,
                               !.xcp_profit = profit,
                               !.xcp_profit_real = rc.real]
    IN  [ps EXCEPT !.price_state =
            IF repeg THEN [base EXCEPT !.price_scale = rc.cand, !.xcp_profit_real = rc.creal]
            ELSE base])
        : rc \in {RepegCase(ps, pp, t, total_share, xs)}} : TRUE

(* ------------------------------- messages ------------------------------ *)
MintMsg(to, amount) == [type |-> "mint", to |-> to, asset |-> 0, amount |-> amount]
BurnMsg(amount) == [type |-> "burn", to |-> "none", asset |-> 0, amount |-> amount]
SendMsg(asset, to, amount) == [type |-> "send", to |-> to, asset |-> asset, amount |-> amount]
\* leave_orderbook : withdraw the whole subaccount back to the contract
LeaveMsg == [type |-> "leave_orderbook", to |-> "none", asset |-> 0, amount |-> 0]

\* handler result
Fail(e, cfg, ob) ==
    [err |-> e, config |-> cfg, ob_state |-> ob, msgs |-> <<>>, used |-> AmpGammaDefault]

\* handler result of a success; used is the amp and gamma the handler read
Ok(cfg, ob, msgs, used) ==
    [err |-> "ok", config |-> cfg, ob_state |-> ob, msgs |-> msgs, used |-> used]

\* the transfer of the maker fee to the fee address of the factory
MakerFeeMsgsAlt(fee_info, ask_ind, maker_fee) ==
    <<SendMsg(ask_ind, fee_info.fee_address, maker_fee)>>
MakerFeeMsgs(fee_info, ask_ind, maker_fee) ==
    IF fee_info.fee_address # "none" /\ maker_fee # 0
    THEN <<SendMsg(ask_ind, fee_info.fee_address, maker_fee)>>
    ELSE <<>>

(* ------------------------ trades of the orderbook ---------------------- *)
\* the trade the orders of the pool took part in since the subaccount balances
\* were stored: one balance rose (the offer) and the other fell (the ask)
CumulativeTrade(last_balances, subacc) ==
    IF subacc[1] > last_balances[1] /\ subacc[2] < last_balances[2]
    THEN [traded |-> TRUE, ask_ind |-> 2, offer_amount |-> subacc[1] - last_balances[1],
          ask_amount |-> last_balances[2] - subacc[2]]
    ELSE IF subacc[1] < last_balances[1] /\ subacc[2] > last_balances[2]
    THEN [traded |-> TRUE, ask_ind |-> 1, offer_amount |-> subacc[2] - last_balances[2],
          ask_amount |-> last_balances[1] - subacc[1]]
    ELSE [traded |-> FALSE, ask_ind |-> 1, offer_amount |-> 0, ask_amount |-> 0]

\* the maker fee of an orderbook trade: the maker share of the pool fee on the
\* amount that left the subaccount
TradeMakerFeeAlt(tr, cfg, ixs, fee_info) == 0
TradeMakerFee(tr, cfg, ixs, fee_info) ==
    IF fee_info.fee_address # "none"
    THEN (tr.ask_amount * fee(cfg.pool_params, ixs) * fee_info.maker_fee_rate) \div (ONE * ONE)
    ELSE 0

\* process_cumulative_trade : result [err, config, xs, msgs]; xs are the pool
\* balances, which give up the maker fee; the price is updated with the price
\* of the trade when both of its legs are safe sizes
process_cumulative_trade(cfg, ob, xs, subacc, fee_info, total_share, t) ==
    LET tr  == CumulativeTrade(ob.last_balances, subacc)
        pr  == cfg.pool_state.price_state
        maker_fee == TradeMakerFee(tr, cfg, <<xs[1], MulRatio(xs[2], pr.price_scale)>>, fee_info)
        xs1 == [xs EXCEPT ![tr.ask_ind] = @ - maker_fee]
        ixs == <<xs1[1], MulRatio(xs1[2], pr.price_scale)>>
        priced == tr.offer_amount >= MIN_TRADE_SIZE /\ tr.ask_amount >= MIN_TRADE_SIZE
        last_price == IF tr.ask_ind = 2 THEN (tr.offer_amount * ONE) \div tr.ask_amount
                      ELSE (tr.ask_amount * ONE) \div tr.offer_amount
    IN  IF ~tr.traded THEN [err |-> "ok", config |-> cfg, xs |-> xs, msgs |-> <<>>]
        ELSE IF xs[tr.ask_ind] < maker_fee
        THEN [err |-> "Overflow", config |-> cfg, xs |-> xs, msgs |-> <<>>]
        ELSE IF priced /\ (CalcDFails(ixs) \/ total_share = 0)
        THEN [err |-> "PclError", config |-> cfg, xs |-> xs, msgs |-> <<>>]
        ELSE [err |-> "ok",
              config |-> IF priced
                         THEN [cfg EXCEPT !.pool_state =
                                 update_price(cfg.pool_state, cfg.pool_params, t, total_share,
                                              ixs, last_price)]
                         ELSE cfg,
              xs |-> xs1,
              msgs |-> MakerFeeMsgs(fee_info, tr.ask_ind, maker_fee)]

\* the trade is processed by the message that finds the subaccount balances
\* changed since they were stored
TradeProcessed(cfg, ob, xs, subacc, fee_info, total_share, t) ==
    IF ob.last_balances # subacc
    THEN process_cumulative_trade(cfg, ob, xs, subacc, fee_info, total_share, t)
    ELSE [err |-> "ok", config |-> cfg, xs |-> xs, msgs |-> <<>>]

\* OrderbookState::reconcile : ask the next begin blocker for a reconciliation
reconcileAlt(ob) == ob
reconcile(ob) == [ob EXCEPT !.need_reconcile = TRUE]

\* the subaccount balances a provide or a swap saw are stored as last_balances
StoreLastBalancesAlt(ob, subacc) == ob
StoreLastBalances(ob, subacc) ==
    IF ob.last_balances # subacc THEN [ob EXCEPT !.last_balances = subacc] ELSE ob

(* ----------------------------- provide_liquidity ----------------------- *)
DEFAULT_SLIPPAGE == 50
MAX_ALLOWED_SLIPPAGE == 5000

\* assert_slippage_tolerance : the slippage of a deposit against the LP amount a
\* balanced deposit of the same value would mint
SlippageOf(deposits, share, pr) ==
    LET deposit_value == deposits[1] + MulRatio(deposits[2], pr.price_scale)
        lp_expected   == get_xcp(deposit_value, pr.price_scale)
    IN  IF lp_expected = 0 THEN 0
        ELSE (SatSub(lp_expected, share) * ONE) \div lp_expected

SlippageError(deposits, share, pr, slippage_tolerance) ==
    LET tol == IF slippage_tolerance = None THEN DEFAULT_SLIPPAGE ELSE slippage_tolerance
    IN  IF tol > MAX_ALLOWED_SLIPPAGE THEN "AllowedSpreadAssertion"
        ELSE IF SlippageOf(deposits, share, pr) > tol THEN "MaxSpreadAssertion"
        ELSE "ok"

\* the asset list of a provide: check of its length, completion of an omitted
\* asset with a zero amount, check_assets and assert_coins_properly_sent
AssetsError(assets) ==
    IF Len(assets) = 0 THEN "NothingToProvide"
    ELSE IF Len(assets) = 1 /\ assets[1].info \notin {1, 2} THEN "InvalidAsset"
    ELSE IF Len(assets) > 2 THEN "InvalidNumberOfAssets"
    ELSE IF Len(assets) = 2 /\ assets[1].info = assets[2].info THEN "DoublingAssets"
    ELSE IF \E i \in 1..Len(assets) : assets[i].info \notin {1, 2} THEN "UnexpectedAsset"
    ELSE "ok"

CompleteAssets(assets) ==
    IF Len(assets) = 1
    THEN Append(assets, [info |-> 3 - assets[1].info, amount |-> 0])
    ELSE assets

\* the deposits in pool order: the two assets are swapped when given in reverse order
DepositsOfAlt(assets) ==
    LET full == CompleteAssets(assets)
    IN  <<full[1].amount, full[2].amount>>
DepositsOf(assets) ==
    LET full == CompleteAssets(assets)
    IN  IF full[2].info = 1 THEN <<full[2].amount, full[1].amount>>
        ELSE <<full[1].amount, full[2].amount>>

\* the amp and gamma an operation at block time t computes with
AmpGammaUsedAlt(cfg, t) == cfg.pool_state.future
AmpGammaUsed(cfg, t) == get_amp_gamma(cfg.pool_state, t)

\* the initial provide can not be one-sided
ZeroDepositRejectedAlt(total_share, deposits) == deposits[1] = 0 \/ deposits[2] = 0
ZeroDepositRejected(total_share, deposits) ==
    total_share = 0 /\ (deposits[1] = 0 \/ deposits[2] = 0)

\* share of the first provide: xcp - MINIMUM_LIQUIDITY_AMOUNT
FirstShareAlt(new_d, price_scale) == get_xcp(new_d, price_scale)
FirstShare(new_d, price_scale) == get_xcp(new_d, price_scale) - MINIMUM_LIQUIDITY_AMOUNT

\* the first provide starts the profit bookkeeping at one
FirstProvideProfitAlt(cfg) == cfg
FirstProvideProfit(cfg) ==
    [cfg EXCEPT !.pool_state.price_state.xcp_profit_real = ONE,
                !.pool_state.price_state.xcp_profit = ONE]

\* the deposits repriced by the price scale, in units of 1 / ONE
InternalDeposits(deposits, cfg) ==
    <<deposits[1] * ONE, deposits[2] * cfg.pool_state.price_state.price_scale>>

\* share of a later provide, after the fee on its imbalanced part
NextShareAlt(total_share, new_d, old_d, deposits, new_xp, cfg) ==
    MulRatio((total_share * new_d) \div old_d,
             ONE - calc_provide_fee(InternalDeposits(deposits, cfg), new_xp, cfg.pool_params).fee)
NextShare(total_share, new_d, old_d, deposits, new_xp, cfg) ==
    MulRatio(SatSub((total_share * new_d) \div old_d, total_share),
             ONE - calc_provide_fee(InternalDeposits(deposits, cfg), new_xp, cfg.pool_params).fee)

\* the LP supply update_price is given by a provide: the share was computed
\* before and is already counted
UpdateTotalShareAlt(total_share, share) == total_share
UpdateTotalShare(total_share, share) == total_share + share

\* the deviation of the deposits from the balanced share: the part of the new
\* balances that the minted share stands for
AssetsDiff(deposits, new_xp, share, total_share, price_scale) ==
    LET balanced_share == <<(new_xp[1] * share) \div (total_share + share),
                            (((new_xp[2] * share) \div (total_share + share)) * ONE)
                                \div price_scale>>
    IN  <<Diff(deposits[1], balanced_share[1]), Diff(deposits[2], balanced_share[2])>>

\* the deposit diverges from the balanced share: the slippage is asserted and
\* the price updated only then
DivergesAlt(assets_diff) ==
    assets_diff[1] >= MIN_TRADE_SIZE \/ assets_diff[2] >= MIN_TRADE_SIZE
Diverges(assets_diff) ==
    assets_diff[1] >= MIN_TRADE_SIZE /\ assets_diff[2] >= MIN_TRADE_SIZE

\* check_pair_registered : the factory still lists the pair of the two assets
check_pair_registeredAlt(fct) == TRUE
check_pair_registered(fct) == fct.pair_registered

\* pools: the balances read by query_pools, the deposit already included;
\* total_share: the LP supply; subacc: the balances of the orderbook subaccount;
\* fct: the factory
provide_liquidity(cfg0, ob, pools, total_share, subacc, sender, assets, slippage_tolerance, t, fct) ==
    IF ~check_pair_registered(fct) THEN Fail("PairIsNotRegistered", cfg0, ob)
    ELSE IF AssetsError(assets) # "ok" THEN Fail(AssetsError(assets), cfg0, ob)
    ELSE
    LET deposits == DepositsOf(assets)
    IN
    IF ZeroDepositRejected(total_share, deposits)
    THEN Fail("InvalidZeroAmount", cfg0, ob)
    ELSE IF pools[1] < deposits[1] \/ pools[2] < deposits[2]
    THEN Fail("Overflow", cfg0, ob)
    ELSE
    CHOOSE result \in {(
    IF pct.err # "ok" THEN Fail(pct.err, cfg0, ob)
    ELSE
    LET cfg     == pct.config
        pr      == cfg.pool_state.price_state
        xs      == pct.xs
        ob1     == StoreLastBalances(ob, subacc)
        new_xp  == <<xs[1] + deposits[1], MulRatio(xs[2] + deposits[2], pr.price_scale)>>
        old_xp  == <<xs[1], MulRatio(xs[2], pr.price_scale)>>
        amp_gamma == AmpGammaUsed(cfg, t)
    IN
    IF CalcDFails(new_xp) THEN Fail("PclError", cfg, ob)
    ELSE
    LET new_d == calc_d(new_xp, amp_gamma)
        first == total_share = 0
    IN
    IF first /\ FirstShare(new_d, pr.price_scale) <= 0
    THEN Fail("MinimumLiquidityAmountError", cfg, ob)
    ELSE IF ~first /\ (CalcDFails(old_xp) \/ calc_d(old_xp, amp_gamma) = 0)
    THEN Fail("PclError", cfg, ob)
    ELSE IF ~first /\ calc_provide_fee(InternalDeposits(deposits, cfg), new_xp, cfg.pool_params).err # "ok"
    THEN Fail("DivideByZero", cfg, ob)
    ELSE
    LET share == IF first THEN FirstShare(new_d, pr.price_scale)
                 ELSE NextShare(total_share, new_d, calc_d(old_xp, amp_gamma), deposits, new_xp, cfg)
        cfg1  == IF first THEN FirstProvideProfit(cfg) ELSE cfg
        msgs1 == IF first THEN <<MintMsg("pool", MINIMUM_LIQUIDITY_AMOUNT)>> ELSE <<>>
        assets_diff == AssetsDiff(deposits, new_xp, share, total_share, pr.price_scale)
        diverges == Diverges(assets_diff)
        slip_err == SlippageError(deposits, share, cfg1.pool_state.price_state, slippage_tolerance)
    IN
    IF diverges /\ slip_err # "ok" THEN Fail(slip_err, cfg, ob)
    ELSE
    LET last_price == (assets_diff[1] * ONE) \div assets_diff[2]
        cfg2 == IF diverges
                THEN [cfg1 EXCEPT !.pool_state =
                        update_price(cfg1.pool_state, cfg1.pool_params, t,
                                     UpdateTotalShare(total_share, share), new_xp, last_price)]
                ELSE cfg1
    IN  Ok(cfg2, reconcile(ob1),
           pct.msgs \o Append(msgs1, MintMsg(sender, share)), amp_gamma))
        : pct \in {TradeProcessed(cfg0, ob, <<pools[1] - deposits[1], pools[2] - deposits[2]>>,
                                 subacc, fct, total_share, t)}} : TRUE

(* ----------------------------- withdraw_liquidity ---------------------- *)
\* the LP amount the refund is computed from
RefundShareAlt(amount) == amount
RefundShare(amount) == SatSub(amount, 1)

\* the LP amount burned by a withdrawal
BurnAmountAlt(amount) == amount + 1
BurnAmount(amount) == amount

\* the handling of the asset list given to a withdrawal
ImbalancedAllowedAlt(assets) == TRUE
ImbalancedAllowed(assets) == Len(assets) = 0

\* the Config saved by a withdrawal: the profit per share after it
WithdrawProfitAlt(cfg, real) ==
    [cfg EXCEPT !.pool_state.price_state.xcp_profit_real = real,
                !.pool_state.price_state.xcp_profit = real]
WithdrawProfit(cfg, real) ==
    [cfg EXCEPT !.pool_state.price_state.xcp_profit_real = real]

\* caller: the address that sent the message (the LP token on a cw20 Send hook);
\* pools: the balances read by query_pools; contract_balances: the part of them
\* held by the contract itself
withdraw_liquidity(cfg, ob, pools, total_share, contract_balances, caller, sender, amount, assets, t) ==
    IF caller # cfg.pair_info.liquidity_token THEN Fail("Unauthorized", cfg, ob)
    ELSE IF ~ImbalancedAllowed(assets) THEN Fail("ImbalancedWithdrawDisabled", cfg, ob)
    ELSE
    LET refund_assets == get_share_in_assets(pools, RefundShare(amount), total_share)
        leave == \/ refund_assets[1] > contract_balances[1]
                 \/ refund_assets[2] > contract_balances[2]
        pr == cfg.pool_state.price_state
    IN
    IF refund_assets[1] > pools[1] \/ refund_assets[2] > pools[2]
    THEN Fail("Overflow", cfg, ob)
    ELSE
    LET xs == <<pools[1] - refund_assets[1],
                MulRatio(pools[2] - refund_assets[2], pr.price_scale)>>
        amp_gamma == AmpGammaUsed(cfg, t)
    IN
    IF CalcDFails(xs) THEN Fail("PclError", cfg, ob)
    ELSE IF amount > total_share THEN Fail("Overflow", cfg, ob)
    ELSE IF total_share - amount = 0 THEN Fail("DivideByZero", cfg, ob)
    ELSE
    LET d == calc_d(xs, amp_gamma)
        real == (get_xcp(d, pr.price_scale) * ONE) \div (total_share - amount)
    IN  Ok(WithdrawProfit(cfg, real),
           reconcile(ob),
           (IF leave THEN <<LeaveMsg>> ELSE <<>>)
              \o <<SendMsg(1, sender, refund_assets[1]),
                   SendMsg(2, sender, refund_assets[2]),
                   BurnMsg(BurnAmount(amount))>>,
           amp_gamma)

(* ----------------------------------- swap ------------------------------ *)
\* compute_swap : the invariant before and after the offer gives the raw output;
\* the fee rate is taken on the output and split between maker and pool
compute_swap(xs, offer_amount, ask_ind, cfg, t, maker_fee_share) ==
    LET offer_ind == 3 - ask_ind
        ps        == cfg.pool_state.price_state.price_scale
        ag        == get_amp_gamma(cfg.pool_state, t)
        ixs       == <<xs[1], MulRatio(xs[2], ps)>>
        offer_int == IF offer_ind = 2 THEN MulRatio(offer_amount, ps) ELSE offer_amount
        d         == calc_d(ixs, ag)
        ixs1      == [ixs EXCEPT ![offer_ind] = @ + offer_int]
        new_y     == calc_y(ixs1, d, ag, ask_ind)
        dy_int    == ixs[ask_ind] - new_y
        ixs2      == [ixs1 EXCEPT ![ask_ind] = new_y]
        dy0       == IF ask_ind = 2 THEN (dy_int * ONE) \div ps ELSE dy_int
        price     == IF ask_ind = 2 THEN (ONE * ONE) \div ps ELSE ps
        total_fee == MulRatio(dy0, fee(cfg.pool_params, ixs2))
    IN  [dy         |-> dy0 - total_fee,
         spread_fee |-> SatSub(MulRatio(offer_amount, price), dy0),
         maker_fee  |-> MulRatio(total_fee, maker_fee_share),
         total_fee  |-> total_fee]

\* SwapResult::calc_last_price : the price of asset 1 in units of asset 0
calc_last_price(sr, offer_amount, offer_ind) ==
    IF offer_ind = 1 THEN (offer_amount * ONE) \div (sr.dy + sr.maker_fee)
    ELSE ((sr.dy + sr.maker_fee) * ONE) \div offer_amount

\* assert_max_spread
MaxSpreadError(belief_price, max_spread, offer_amount, return_amount, spread_amount) ==
    LET ms == IF max_spread = None THEN DEFAULT_SLIPPAGE ELSE max_spread
        expected == (offer_amount * ONE) \div belief_price
    IN  IF ms > MAX_ALLOWED_SLIPPAGE THEN "AllowedSpreadAssertion"
        ELSE IF belief_price # None
        THEN (IF /\ return_amount < expected
                 /\ SatSub(expected, return_amount) * ONE > ms * expected
              THEN "MaxSpreadAssertion" ELSE "ok")
        ELSE IF return_amount + spread_amount > 0
                /\ spread_amount * ONE > ms * (return_amount + spread_amount)
        THEN "MaxSpreadAssertion"
        ELSE "ok"

\* the spread amount handed to assert_max_spread
SpreadAmountAlt(sr) == 0
SpreadAmount(sr) == sr.spread_fee

\* the observation data: the precommit observation (ts 0: none) and the
\* observations stored in the buffer, oldest first
NoPrecommit == [base_amount |-> 0, quote_amount |-> 0, precommit_ts |-> 0]
NoObservations == [precommit |-> NoPrecommit, buffer |-> <<>>]

\* accumulate_swap_sizes : the observation of the precommit data is stored in
\* the buffer by the next action, once, and for the first one in a later block
accumulate_swap_sizes(o, t) ==
    LET pre  == o.precommit
        push == [o EXCEPT !.buffer =
                    Append(@, [ts |-> pre.precommit_ts,
                               price |-> (pre.base_amount * ONE) \div pre.quote_amount])]
    IN  IF pre.precommit_ts = 0 THEN o
        ELSE IF o.buffer = <<>> THEN (IF t > pre.precommit_ts THEN push ELSE o)
        ELSE IF o.buffer[Len(o.buffer)].ts < pre.precommit_ts THEN push
        ELSE o

\* PrecommitObservation::save : the trades of one block are added up
PrecommitSave(o, t, base_amount, quote_amount) ==
    [o EXCEPT !.precommit =
        IF @.precommit_ts = t
        THEN [@ EXCEPT !.base_amount = @ + base_amount, !.quote_amount = @ + quote_amount]
        ELSE [base_amount |-> base_amount, quote_amount |-> quote_amount, precommit_ts |-> t]]

\* the trade is stored in the precommit observation: both legs are safe sizes
RecordsObservationAlt(offer_amount, return_amount) ==
    offer_amount >= MIN_TRADE_SIZE
RecordsObservation(offer_amount, return_amount) ==
    offer_amount >= MIN_TRADE_SIZE /\ return_amount >= MIN_TRADE_SIZE

\* the observation data after a swap
swap_observations(o, t, offer_ind, offer_amount, return_amount) ==
    LET o1 == accumulate_swap_sizes(o, t)
    IN  IF RecordsObservation(offer_amount, return_amount)
        THEN (IF offer_ind = 1 THEN PrecommitSave(o1, t, offer_amount, return_amount)
              ELSE PrecommitSave(o1, t, return_amount, offer_amount))
        ELSE o1

\* the swap updates the price: the offer and the output before the maker fee
\* are safe sizes
UpdatesPriceAlt(sr, offer_amount) ==
    sr.dy + sr.maker_fee > MIN_TRADE_SIZE /\ offer_amount > MIN_TRADE_SIZE
UpdatesPrice(sr, offer_amount) ==
    sr.dy + sr.maker_fee >= MIN_TRADE_SIZE /\ offer_amount >= MIN_TRADE_SIZE

\* pools: the balances read by query_pools, the offer already included
\* the amount sent to the trader : the output of the swap after the fee
ReturnAmountAlt(sr) == sr.dy + sr.total_fee
ReturnAmount(sr) == sr.dy

swap(cfg0, ob, pools, total_share, subacc, fee_info, sender, offer_ind, offer_amount, belief_price, max_spread, t) ==
    LET ask_ind == 3 - offer_ind
        before  == [pools EXCEPT ![offer_ind] = @ - offer_amount]
        maker_fee_share == IF fee_info.fee_address # "none" THEN fee_info.maker_fee_rate ELSE 0
        ob1     == StoreLastBalances(ob, subacc)
    IN
    IF pools[offer_ind] < offer_amount THEN Fail("Overflow", cfg0, ob)
    ELSE IF offer_amount = 0 THEN Fail("InvalidZeroAmount", cfg0, ob)
    ELSE IF before[1] = 0 \/ before[2] = 0 THEN Fail("PclError", cfg0, ob)
    ELSE
    CHOOSE result \in {(
    IF pct.err # "ok" THEN Fail(pct.err, cfg0, ob)
    ELSE
    LET cfg == pct.config
        xs0 == pct.xs
        pr  == cfg.pool_state.price_state
    IN
    IF CalcDFails(<<xs0[1], MulRatio(xs0[2], pr.price_scale)>>) THEN Fail("PclError", cfg, ob)
    ELSE
    LET sr == compute_swap(xs0, offer_amount, ask_ind, cfg, t, maker_fee_share)
        xs1 == [xs0 EXCEPT ![offer_ind] = @ + offer_amount,
                           ![ask_ind] = @ - (sr.dy + sr.maker_fee)]
        spread_err == MaxSpreadError(belief_price, max_spread, offer_amount, sr.dy, SpreadAmount(sr))
    IN
    IF xs0[ask_ind] < sr.dy + sr.maker_fee THEN Fail("Overflow", cfg, ob)
    ELSE IF spread_err # "ok" THEN Fail(spread_err, cfg, ob)
    ELSE
    LET priced == UpdatesPrice(sr, offer_amount)
        ixs == <<xs1[1], MulRatio(xs1[2], pr.price_scale)>>
    IN
    IF priced /\ (CalcDFails(ixs) \/ total_share = 0) THEN Fail("PclError", cfg, ob)
    ELSE
    LET cfg1 == IF priced
                THEN [cfg EXCEPT !.pool_state =
                        update_price(cfg.pool_state, cfg.pool_params, t, total_share, ixs,
                                     calc_last_price(sr, offer_amount, offer_ind))]
                ELSE cfg
        fee_msgs == MakerFeeMsgs(fee_info, ask_ind, sr.maker_fee)
    IN  Ok(cfg1, reconcile(ob1),
           pct.msgs \o <<SendMsg(ask_ind, sender, ReturnAmount(sr))>> \o fee_msgs,
           get_amp_gamma(cfg.pool_state, t)))
        : pct \in {TradeProcessed(cfg0, ob, before, subacc, fee_info, total_share, t)}} : TRUE

(* ------------------------------ update_config -------------------------- *)
ORDERS_NUMBER_MIN == 1
ORDERS_NUMBER_MAX == 5

\* the address allowed to update the pool: the pool owner when set, else the factory owner
PoolOwnerAlt(cfg, factory_owner, sender) == sender
PoolOwner(cfg, factory_owner, sender) == IF cfg.owner # "none" THEN cfg.owner ELSE factory_owner

\* CONFIG.save at the end of update_config
SaveConfigAlt(cfg, updated) == cfg
SaveConfig(cfg, updated) == updated

update_config(cfg, ob, factory_owner, sender, params, t) ==
    IF sender # PoolOwner(cfg, factory_owner, sender) THEN Fail("Unauthorized", cfg, ob)
    ELSE IF params.kind = "Update"
    THEN LET r == update_params(cfg.pool_params, params.upd)
         IN  IF r.err # "ok" THEN Fail(r.err, cfg, ob)
             ELSE Ok(SaveConfig(cfg, [cfg EXCEPT !.pool_params = r.pool_params]), ob, <<>>,
                     AmpGammaDefault)
    ELSE IF params.kind = "Promote"
    THEN LET r == promote_params(cfg.pool_state, t, params.next_amp, params.next_gamma,
                                 params.future_time)
         IN  IF r.err # "ok" THEN Fail(r.err, cfg, ob)
             ELSE Ok(SaveConfig(cfg, [cfg EXCEPT !.pool_state = r.pool_state]), ob, <<>>,
                     AmpGammaDefault)
    ELSE IF params.kind = "StopChangingAmpGamma"
    THEN Ok(SaveConfig(cfg, [cfg EXCEPT !.pool_state = stop_promotion(cfg.pool_state, t)]),
            ob, <<>>, AmpGammaDefault)
    ELSE \* UpdateOrderbookParams
         IF params.orders_number < ORDERS_NUMBER_MIN \/ params.orders_number > ORDERS_NUMBER_MAX
         THEN Fail("IncorrectOrderbookParams", cfg, ob)
         ELSE Ok(SaveConfig(cfg, cfg), [ob EXCEPT !.orders_number = params.orders_number], <<>>,
                 AmpGammaDefault)

(* ------------------------------- ownership ---------------------------- *)
NoProposal == [owner |-> "none", ttl |-> 0]
MAX_PROPOSAL_TTL == 2

\* propose_new_owner : result [err, proposal]
propose_new_owner(cfg, prop, factory_owner, sender, new_owner, expires_in, t) ==
    IF sender # PoolOwner(cfg, factory_owner, sender)
    THEN [err |-> "Unauthorized", proposal |-> prop]
    ELSE IF new_owner = PoolOwner(cfg, factory_owner, sender)
    THEN [err |-> "NewOwnerCannotBeSame", proposal |-> prop]
    ELSE IF expires_in > MAX_PROPOSAL_TTL
    THEN [err |-> "ExpiresInTooHigh", proposal |-> prop]
    ELSE [err |-> "ok", proposal |-> [owner |-> new_owner, ttl |-> t + expires_in]]

\* drop_ownership_proposal : result [err, proposal]
drop_ownership_proposal(cfg, prop, factory_owner, sender) ==
    IF sender # PoolOwner(cfg, factory_owner, sender)
    THEN [err |-> "Unauthorized", proposal |-> prop]
    ELSE [err |-> "ok", proposal |-> NoProposal]

\* claim_ownership : result [err, proposal, config]
claim_ownership(cfg, prop, sender, t) ==
    IF prop = NoProposal
    THEN [err |-> "OwnershipProposalNotFound", proposal |-> prop, config |-> cfg]
    ELSE IF sender # prop.owner
    THEN [err |-> "Unauthorized", proposal |-> prop, config |-> cfg]
    ELSE IF t > prop.ttl
    THEN [err |-> "OwnershipProposalExpired", proposal |-> prop, config |-> cfg]
    ELSE [err |-> "ok", proposal |-> NoProposal, config |-> [cfg EXCEPT !.owner = sender]]

(* ------------------------ orderbook_emergency_withdraw ----------------- *)
\* OrderbookState::reconciliation_done
reconciliation_done(ob, new_balances) ==
    [ob EXCEPT !.need_reconcile = FALSE, !.last_balances = new_balances]

\* the subaccount is left when it holds anything
LeaveOrderbookMsgsAlt(subacc) == <<LeaveMsg>>
LeaveOrderbookMsgs(subacc) ==
    IF subacc[1] + subacc[2] # 0 THEN <<LeaveMsg>> ELSE <<>>

\* active: the answer of the chain to is_contract_active; pools: the balances
\* read by query_pools; the subaccount is left first, then the maker fee of a
\* trade not yet processed is sent
orderbook_emergency_withdrawAlt(cfg, ob, active, subacc, pools, fee_info, total_share, t) ==
    CHOOSE result \in {(
        IF pct.err # "ok" THEN Fail(pct.err, cfg, ob)
        ELSE Ok(pct.config,
                reconciliation_done([ob EXCEPT !.enabled = FALSE], <<0, 0>>),
                LeaveOrderbookMsgs(subacc) \o pct.msgs,
                AmpGammaDefault))
        : pct \in {TradeProcessed(cfg, ob, pools, subacc, fee_info, total_share, t)}} : TRUE
orderbook_emergency_withdraw(cfg, ob, active, subacc, pools, fee_info, total_share, t) ==
    IF active THEN Fail("ContractIsActive", cfg, ob)
    ELSE
    CHOOSE result \in {(
        IF pct.err # "ok" THEN Fail(pct.err, cfg, ob)
        ELSE Ok(pct.config,
                reconciliation_done([ob EXCEPT !.enabled = FALSE], <<0, 0>>),
                LeaveOrderbookMsgs(subacc) \o pct.msgs,
                AmpGammaDefault))
        : pct \in {TradeProcessed(cfg, ob, pools, subacc, fee_info, total_share, t)}} : TRUE

(* =============================== state ================================= *)
VARIABLES
    config,          \* CONFIG : owner, pool_params, pool_state
    ob_state,        \* OB_CONFIG : the orderbook state
    lp,              \* the LP token ledger : holder -> balance
    bank,            \* the balances of the two assets held by the pair contract
    sub,             \* the balances of the orderbook subaccount
    proposal,        \* OWNERSHIP_PROPOSAL : the pending proposal of a new owner
    factory,         \* the factory configuration read by the pair
    contract_active, \* whether the chain runs the pair in its begin blocker
    now,             \* block time
    nops,            \* number of executed messages
    obs,             \* OBSERVATIONS and the PrecommitObservation
    res              \* the last message and its outcome

vars == <<config, ob_state, lp, bank, sub, proposal, factory, contract_active, now, nops, obs, res>>

Users == {"user1", "user2"}
Holders == Users \cup {"pool"}
FactoryOwner == "owner"

RECURSIVE SumOver(_, _)
SumOver(f, S) == IF S = {} THEN 0
                 ELSE LET x == CHOOSE y \in S : TRUE IN f[x] + SumOver(f, S \ {x})
\* query_supply : the LP total supply
TotalShare(ledger) == SumOver(ledger, Holders)

\* query_pools : contract balances plus the balances deployed to the orderbook
query_pools(b, s) == <<b[1] + s[1], b[2] + s[2]>>

(* --------------------------- message execution ------------------------- *)
\* the effect of one message of a response on the ledgers; ok is FALSE when the
\* receiving module rejects it (the whole transaction is then reverted)
ApplyMsg(st, m) ==
    IF m.type = "mint"
    THEN [st EXCEPT !.lp = [@ EXCEPT ![m.to] = @ + m.amount]]
    ELSE IF m.type = "burn"
    THEN IF st.lp["pool"] < m.amount THEN [st EXCEPT !.ok = FALSE]
         ELSE [st EXCEPT !.lp = [@ EXCEPT !["pool"] = @ - m.amount]]
    ELSE IF m.type = "send"
    THEN IF st.bank[m.asset] < m.amount THEN [st EXCEPT !.ok = FALSE]
         ELSE [st EXCEPT !.bank = [@ EXCEPT ![m.asset] = @ - m.amount]]
    ELSE \* leave_orderbook : the subaccount balances return to the contract
         [st EXCEPT !.bank = <<st.bank[1] + st.sub[1], st.bank[2] + st.sub[2]>>,
                    !.sub = <<0, 0>>]

RECURSIVE ApplyMsgs(_, _)
ApplyMsgs(st, msgs) ==
    IF msgs = <<>> THEN st ELSE ApplyMsgs(ApplyMsg(st, Head(msgs)), Tail(msgs))

\* the refunds sent to an address by a response, per asset
RECURSIVE SentTo(_, _, _)
SentTo(msgs, to, asset) ==
    IF msgs = <<>> THEN 0
    ELSE (IF Head(msgs).type = "send" /\ Head(msgs).to = to /\ Head(msgs).asset = asset
          THEN Head(msgs).amount ELSE 0) + SentTo(Tail(msgs), to, asset)

RECURSIVE MintedTo(_, _)
MintedTo(msgs, to) ==
    IF msgs = <<>> THEN 0
    ELSE (IF Head(msgs).type = "mint" /\ Head(msgs).to = to THEN Head(msgs).amount ELSE 0)
         + MintedTo(Tail(msgs), to)

RECURSIVE Burned(_)
Burned(msgs) ==
    IF msgs = <<>> THEN 0
    ELSE (IF Head(msgs).type = "burn" THEN Head(msgs).amount ELSE 0) + Burned(Tail(msgs))

\* a behaviour is followed up to its first failing message, and past a swap
\* refused for its spread by the swaps that follow it (the test retries a
\* refused swap with a smaller amount)
Resumable(op) ==
    \/ res.err = "ok"
    \/ res.op = "swap" /\ res.err = "MaxSpreadAssertion" /\ op = "swap"

\* commit of a transaction: the handler result r is applied to the ledgers l
\* (after the funds of the message were received); everything is reverted when
\* the handler or one of its messages fails.  nops counts the committed
\* messages; a failing message leaves the contract in the state it was in
\* before
CommittedAlt(r, st) == r.err = "ok"
Committed(r, st) == r.err = "ok" /\ st.ok
Execute(op, sender, arg, r, l) ==
    LET st == ApplyMsgs([lp |-> l.lp, bank |-> l.bank, sub |-> l.sub, ok |-> TRUE], r.msgs)
        ok == Committed(r, st)
    IN  /\ Resumable(op)
        /\ nops < MaxOps
        /\ nops' = IF ok THEN nops + 1 ELSE nops
        /\ res' = [n |-> nops + 1, op |-> op, sender |-> sender, arg |-> arg,
                   err |-> IF r.err # "ok" THEN r.err ELSE IF st.ok THEN "ok" ELSE "MessageFailed",
                   msgs |-> IF ok THEN r.msgs ELSE <<>>,
                   used |-> r.used,
                   prev |-> [op |-> res.op, sender |-> res.sender, arg |-> res.arg,
                             msgs |-> res.msgs]]
        /\ IF ok
           THEN /\ config' = r.config
                /\ ob_state' = r.ob_state
                /\ lp' = st.lp
                /\ bank' = st.bank
                /\ sub' = st.sub
           ELSE UNCHANGED <<config, ob_state, lp, bank, sub>>
        /\ UNCHANGED <<factory, contract_active, now>>

(* -------------------------------- Init --------------------------------- *)
Asset(i, a) == [info |-> i, amount |-> a]

\* the init_params of the integration tests (common_pcl_params)
CommonPclParams ==
    [amp |-> 40 * AMP_ONE, gamma |-> 100, mid_fee |-> 26, out_fee |-> 45, fee_gamma |-> 2,
     repeg_profit_threshold |-> 0, min_price_scale_delta |-> 1, ma_half_time |-> 2,
     price_scale |-> ONE]

\* PoolParams::default()
PoolParamsDefault ==
    [mid_fee |-> 0, out_fee |-> 0, fee_gamma |-> 0, repeg_profit_threshold |-> 0,
     min_price_scale_delta |-> 0, ma_half_time |-> 0]

\* the storage of a contract whose instantiation failed : nothing is stored
NoConfig == [owner |-> "none"]

\* the pool parameters of instantiate : update_params on the default, every field given
InitialPoolParamsAlt(params) ==
    [err |-> "ok",
     pool_params |-> [f \in DOMAIN PoolParamsDefault |-> params[f]]]
InitialPoolParams(params) ==
    update_params(PoolParamsDefault, [f \in DOMAIN PoolParamsDefault |-> params[f]])

\* AmpGamma::new(params.amp, params.gamma)? of instantiate
InitialAmpGammaErrorAlt(params) == "ok"
InitialAmpGammaError(params) ==
    IF AmpGammaValid(params.amp, params.gamma) THEN "ok" ELSE "IncorrectPoolParam"

\* future_time of the PoolState stored by instantiate
InitialFutureTimeAlt(t) == t + 1
InitialFutureTime(t) == t

\* instantiate at block time t : result [err, config]
instantiate(params, t) ==
    IF params.price_scale = 0 THEN [err |-> "InitialPriceScaleZero", config |-> NoConfig]
    ELSE IF InitialPoolParams(params).err # "ok"
    THEN [err |-> InitialPoolParams(params).err, config |-> NoConfig]
    ELSE IF InitialAmpGammaError(params) # "ok"
    THEN [err |-> InitialAmpGammaError(params), config |-> NoConfig]
    ELSE
    [err |-> "ok",
     config |->
       [owner |-> "none",
        pair_info |-> [liquidity_token |-> ""],
        pool_params |-> InitialPoolParams(params).pool_params,
        pool_state |->
           [initial |-> AmpGammaDefault,
            future |-> [amp |-> params.amp, gamma |-> params.gamma],
            future_time |-> InitialFutureTime(t),
            initial_time |-> 0,
            price_state |-> [oracle_price |-> params.price_scale,
                             last_price |-> params.price_scale,
                             price_scale |-> params.price_scale, last_price_update |-> t,
                             xcp_profit |-> 0, xcp_profit_real |-> 0]]]]

\* the id of the reply to the instantiation of the LP token
INSTANTIATE_TOKEN_REPLY_ID == 1

\* the address of the LP token contract
LpToken == "lp_token"

\* reply : result [err, config]; data is "none" when the reply carries no data,
\* "malformed" when it does not parse as an instantiate response, else the
\* address of the instantiated contract
replyAlt(cfg, id, data) ==
    IF id = INSTANTIATE_TOKEN_REPLY_ID /\ data # "none"
    THEN IF data = "malformed" THEN [err |-> "Std", config |-> cfg]
         ELSE [err |-> "ok", config |-> [cfg EXCEPT !.pair_info.liquidity_token = data]]
    ELSE [err |-> "FailedToParseReply", config |-> cfg]
reply(cfg, id, data) ==
    IF id = INSTANTIATE_TOKEN_REPLY_ID /\ data # "none"
    THEN IF cfg.pair_info.liquidity_token # "" THEN [err |-> "Unauthorized", config |-> cfg]
         ELSE IF data = "malformed" THEN [err |-> "Std", config |-> cfg]
         ELSE [err |-> "ok", config |-> [cfg EXCEPT !.pair_info.liquidity_token = data]]
    ELSE [err |-> "FailedToParseReply", config |-> cfg]

\* the Config of a constructed contract: the instantiation of the LP token,
\* asked for by instantiate, is answered in the same transaction
Constructed(params, t) ==
    IF instantiate(params, t).err # "ok" THEN NoConfig
    ELSE reply(instantiate(params, t).config, INSTANTIATE_TOKEN_REPLY_ID, LpToken).config

\* OrderbookState::new
OrderbookStateNew ==
    [need_reconcile |-> TRUE, last_balances |-> <<0, 0>>, orders_number |-> 5, enabled |-> TRUE]

\* the state after the instantiation with the given init_params at block time 1
\* the state after instantiate(params) under a factory with the given fee address
InitState(cfg, params, fee_address) ==
    /\ config = cfg
    /\ ob_state = OrderbookStateNew
    /\ lp = [h \in Holders |-> 0]
    /\ bank = <<0, 0>>
    /\ sub = <<0, 0>>
    /\ proposal = NoProposal
    /\ factory = [owner |-> FactoryOwner, fee_address |-> fee_address, maker_fee_rate |-> 3333,
                  pair_registered |-> TRUE]
    /\ contract_active = TRUE
    /\ now = 1
    /\ nops = 0
    /\ obs = NoObservations
    /\ res = [n |-> 0, op |-> "instantiate", sender |-> "none", arg |-> params,
              err |-> instantiate(params, 1).err,
              msgs |-> <<>>, used |-> AmpGammaDefault,
              prev |-> [op |-> "none", sender |-> "none", arg |-> <<>>, msgs |-> <<>>]]

InitFull(params, fee_address) == InitState(Constructed(params, 1), params, fee_address)

InitWith(params) == InitFull(params, "maker")

Init == InitWith(CommonPclParams)

(* ------------------------------- inputs -------------------------------- *)
ProvideAssets ==
    {<<Asset(1, 3000), Asset(2, 3000)>>, <<Asset(1, 1000), Asset(2, 1000)>>,
     <<Asset(2, 1000), Asset(1, 3000)>>, <<Asset(1, 0), Asset(2, 3000)>>,
     <<Asset(2, 3000)>>, <<Asset(1, 0), Asset(2, 0)>>, <<>>}

WithdrawAssets == {<<>>, <<Asset(1, 10), Asset(2, 10)>>}

\* the LP amounts a holder tries to withdraw
WithdrawAmounts(sender) ==
    ({1, lp[sender] \div 2, lp[sender]} \ {0})
    \cup (IF res.op = "provide_liquidity" /\ res.sender = sender
          THEN {MintedTo(res.msgs, sender)} \ {0} ELSE {})

SwapAmounts == {0, 500}

NoUpd == [mid_fee |-> None, out_fee |-> None, fee_gamma |-> None,
          repeg_profit_threshold |-> None, min_price_scale_delta |-> None,
          ma_half_time |-> None]

UpdateArgs ==
    {[kind |-> "Update", upd |-> [NoUpd EXCEPT !.mid_fee = 20]],
     [kind |-> "StopChangingAmpGamma"],
     [kind |-> "UpdateOrderbookParams", orders_number |-> 3]}
    \cup {[kind |-> "Promote", next_amp |-> 44 * AMP_ONE, next_gamma |-> 90,
           future_time |-> now + d] : d \in {1, MIN_AMP_CHANGING_TIME, MIN_AMP_CHANGING_TIME + 1}}

(* ------------------------------- actions ------------------------------- *)
Ledgers == [lp |-> lp, bank |-> bank, sub |-> sub]

\* the next block
Tick ==
    /\ now < MaxTime
    /\ res.err = "ok"
    /\ now' = now + 1
    /\ UNCHANGED <<config, ob_state, lp, bank, sub, proposal, factory, contract_active, nops,
                   obs, res>>

\* the begin blocker of an enabled pool that asked for reconciliation places
\* the orders of the pool: all but one k-th of the liquidity moves to the
\* subaccount, and the subaccount balances are remembered
BeginBlocker(k) ==
    /\ contract_active /\ ob_state.enabled /\ ob_state.need_reconcile
    /\ ~CumulativeTrade(ob_state.last_balances, sub).traded
    /\ res.err = "ok"
    /\ query_pools(bank, sub)[1] > 0 /\ query_pools(bank, sub)[2] > 0
    /\ bank' = <<query_pools(bank, sub)[1] \div k, query_pools(bank, sub)[2] \div k>>
    /\ sub' = <<query_pools(bank, sub)[1] - query_pools(bank, sub)[1] \div k,
                query_pools(bank, sub)[2] - query_pools(bank, sub)[2] \div k>>
    /\ ob_state' = reconciliation_done(ob_state, sub')
    /\ UNCHANGED <<config, lp, proposal, factory, contract_active, now, nops, obs, res>>

\* a taker fills orders of the pool: the subaccount receives offer_amount of
\* the asset offer_ind and gives ask_amount of the other one; one fill at a
\* time is left for the pair to process
OrderbookTrade(offer_ind, offer_amount, ask_amount) ==
    /\ res.err = "ok"
    /\ ob_state.last_balances = sub
    /\ sub[3 - offer_ind] >= ask_amount
    /\ sub[offer_ind] + bank[offer_ind] + offer_amount <= MaxPool
    /\ sub' = [sub EXCEPT ![offer_ind] = @ + offer_amount, ![3 - offer_ind] = @ - ask_amount]
    /\ UNCHANGED <<config, ob_state, lp, bank, proposal, factory, contract_active, now, nops,
                   obs, res>>

\* the factory owner deregisters the pair in the factory
Deregister ==
    /\ factory.pair_registered
    /\ res.err = "ok"
    /\ factory' = [factory EXCEPT !.pair_registered = FALSE]
    /\ UNCHANGED <<config, ob_state, lp, bank, sub, proposal, contract_active, now, nops, obs, res>>

\* the chain deactivates the pair contract in its begin blocker
Deactivate ==
    /\ contract_active
    /\ contract_active' = FALSE
    /\ UNCHANGED <<config, ob_state, lp, bank, sub, proposal, factory, now, nops, obs, res>>

\* ExecuteMsg::ProvideLiquidity ; the native funds arrive with the message
ProvideLiquidity(sender, assets, slippage_tolerance) ==
    LET dep   == IF AssetsError(assets) = "ok" THEN DepositsOf(assets) ELSE <<0, 0>>
        bank1 == <<bank[1] + dep[1], bank[2] + dep[2]>>
    IN  /\ bank1[1] <= MaxPool /\ bank1[2] <= MaxPool
        /\ UNCHANGED <<proposal, obs>>
        /\ Resumable("provide_liquidity") /\ nops < MaxOps
        /\ \E r0 \in {provide_liquidity(config, ob_state, query_pools(bank1, sub), TotalShare(lp),
                                         sub, sender, assets, slippage_tolerance, now, factory)} :
           \E r \in {IF r0.err = "ok"
                     THEN [r0 EXCEPT !.ob_state.enabled = contract_active] ELSE r0} :
              Execute("provide_liquidity", sender,
                      [assets |-> assets, deposits |-> dep,
                       slippage_tolerance |-> slippage_tolerance,
                       pools |-> query_pools(bank, sub), total_share |-> TotalShare(lp)],
                      r, [lp |-> lp, bank |-> bank1, sub |-> sub])

\* Cw20HookMsg::WithdrawLiquidity ; the LP tokens are sent to the pair by the
\* LP token contract, which then calls the pair
WithdrawLiquidity(sender, amount, assets, caller) ==
    LET lp1 == IF caller = LpToken
               THEN [lp EXCEPT ![sender] = @ - amount, !["pool"] = @ + amount]
               ELSE lp
    IN  /\ lp[sender] >= amount
        /\ UNCHANGED <<proposal, obs>>
        /\ Resumable("withdraw_liquidity") /\ nops < MaxOps
        /\ \E r \in {withdraw_liquidity(config, ob_state, query_pools(bank, sub), TotalShare(lp),
                                         bank, caller, sender, amount, assets, now)} :
              Execute("withdraw_liquidity", sender,
                      [amount |-> amount, assets |-> assets, caller |-> caller,
                       pools |-> query_pools(bank, sub), total_share |-> TotalShare(lp)],
                      r, [lp |-> lp1, bank |-> bank, sub |-> sub])

\* ExecuteMsg::Swap ; the offered funds arrive with the message
Swap(sender, offer_ind, offer_amount, belief_price, max_spread) ==
    LET bank1 == [bank EXCEPT ![offer_ind] = @ + offer_amount]
    IN  /\ bank1[offer_ind] <= MaxPool
        /\ UNCHANGED proposal
        /\ Resumable("swap") /\ nops < MaxOps
        /\ \E r0 \in {swap(config, ob_state, query_pools(bank1, sub), TotalShare(lp), sub,
                            factory, sender, offer_ind, offer_amount, belief_price, max_spread,
                            now)} :
           \E r \in {IF r0.err = "ok"
                     THEN [r0 EXCEPT !.ob_state.enabled = contract_active] ELSE r0} :
              Execute("swap", sender,
                      [offer_ind |-> offer_ind, offer_amount |-> offer_amount,
                       belief_price |-> belief_price, max_spread |-> max_spread],
                      r, [lp |-> lp, bank |-> bank1, sub |-> sub])
        /\ obs' = IF res'.err = "ok"
                  THEN swap_observations(obs, now, offer_ind, offer_amount,
                                         SentTo(res'.msgs, sender, 3 - offer_ind))
                  ELSE obs

\* ExecuteMsg::UpdateConfig
UpdateConfig(sender, params) ==
    /\ UNCHANGED <<proposal, obs>>
    /\ Resumable("update_config") /\ nops < MaxOps
    /\ \E r \in {update_config(config, ob_state, factory.owner, sender, params, now)} :
          Execute("update_config", sender, params, r, Ledgers)

\* the handler result of an ownership message
OwnershipResult(r, cfg) ==
    IF r.err = "ok" THEN Ok(cfg, ob_state, <<>>, AmpGammaDefault)
    ELSE Fail(r.err, config, ob_state)

\* ExecuteMsg::ProposeNewOwner
ProposeNewOwner(sender, new_owner, expires_in) ==
    LET r == propose_new_owner(config, proposal, factory.owner, sender, new_owner, expires_in, now)
    IN  /\ proposal' = r.proposal
        /\ UNCHANGED obs
        /\ Execute("propose_new_owner", sender, [owner |-> new_owner, expires_in |-> expires_in],
                   OwnershipResult(r, config), Ledgers)

\* ExecuteMsg::DropOwnershipProposal
DropOwnershipProposal(sender) ==
    LET r == drop_ownership_proposal(config, proposal, factory.owner, sender)
    IN  /\ proposal' = r.proposal
        /\ UNCHANGED obs
        /\ Execute("drop_ownership_proposal", sender, <<>>, OwnershipResult(r, config), Ledgers)

\* ExecuteMsg::ClaimOwnership
ClaimOwnership(sender) ==
    LET r == claim_ownership(config, proposal, sender, now)
    IN  /\ proposal' = r.proposal
        /\ UNCHANGED obs
        /\ Execute("claim_ownership", sender, <<>>, OwnershipResult(r, r.config), Ledgers)

\* the reply entry point, called by the chain with the result of a submessage
Reply(id, data) ==
    /\ UNCHANGED <<proposal, obs>>
    /\ Resumable("reply") /\ nops < MaxOps
    /\ \E r \in {reply(config, id, data)} :
          Execute("reply", "chain", [id |-> id, data |-> data],
                  IF r.err = "ok" THEN Ok(r.config, ob_state, <<>>, AmpGammaDefault)
                  ELSE Fail(r.err, config, ob_state),
                  Ledgers)

\* ExecuteMsg::WithdrawFromOrderbook
WithdrawFromOrderbook(sender) ==
    /\ UNCHANGED <<proposal, obs>>
    /\ Resumable("withdraw_from_orderbook") /\ nops < MaxOps
    /\ \E r \in {orderbook_emergency_withdraw(config, ob_state, contract_active, sub,
                                               query_pools(bank, sub), factory, TotalShare(lp),
                                               now)} :
          Execute("withdraw_from_orderbook", sender, <<>>, r, Ledgers)

Next ==
    \/ Tick
    \/ \E a \in ProvideAssets : ProvideLiquidity("user1", a, None)
    \/ ProvideLiquidity("user1", <<Asset(2, 3000)>>, 0)
    \/ \E a \in WithdrawAssets, m \in WithdrawAmounts("user1") :
          WithdrawLiquidity("user1", m, a, "lp_token")
    \/ WithdrawLiquidity("user1", 1, <<>>, "direct")
    \/ \E i \in {1, 2}, m \in SwapAmounts : Swap("user2", i, m, None, None)
    \/ \E s \in {FactoryOwner, "user1"} :
          UpdateConfig(s, [kind |-> "Update", upd |-> [NoUpd EXCEPT !.mid_fee = 20]])

Spec == Init /\ [][Next]_vars

\* the parameter updates, with a single liquidity provider and trader
NextCfg ==
    \/ Tick
    \/ ProvideLiquidity("user1", <<Asset(1, 3000), Asset(2, 3000)>>, None)
    \/ WithdrawLiquidity("user1", lp["user1"] \div 2, <<>>, "lp_token")
    \/ Swap("user2", 1, 500, None, None)
    \/ \E s \in {FactoryOwner, "user1"}, p \in UpdateArgs : UpdateConfig(s, p)
    \/ \E s \in {FactoryOwner, "user1"} : ProposeNewOwner(s, "user1", 1)
    \/ \E s \in Users : ClaimOwnership(s)
    \/ DropOwnershipProposal(FactoryOwner)

SpecCfg == Init /\ [][NextCfg]_vars

\* init_params given to instantiate: valid ones, the bounds of amp, gamma and the
\* fees, and values outside of them
InstantiateParams ==
    {CommonPclParams,
     [CommonPclParams EXCEPT !.amp = AMP_MIN, !.gamma = GAMMA_MIN],
     [CommonPclParams EXCEPT !.amp = AMP_MAX, !.gamma = GAMMA_MAX],
     [CommonPclParams EXCEPT !.amp = 0],
     [CommonPclParams EXCEPT !.amp = AMP_MAX + 1],
     [CommonPclParams EXCEPT !.gamma = 0],
     [CommonPclParams EXCEPT !.gamma = GAMMA_MAX + 1],
     [CommonPclParams EXCEPT !.mid_fee = 0, !.out_fee = MAX_FEE, !.ma_half_time = MA_HALF_TIME_MAX],
     [CommonPclParams EXCEPT !.mid_fee = 46],
     [CommonPclParams EXCEPT !.out_fee = MAX_FEE + 1],
     [CommonPclParams EXCEPT !.ma_half_time = MA_HALF_TIME_MAX + 1],
     [CommonPclParams EXCEPT !.ma_half_time = 0],
     [CommonPclParams EXCEPT !.price_scale = 0]}

\* Promote to targets inside and outside of the bounds of amp and gamma
PromoteArgs ==
    {[kind |-> "Promote", next_amp |-> a, next_gamma |-> g, future_time |-> now + d] :
        a \in {0, 44 * AMP_ONE, AMP_MAX + 1},
        g \in {0, 90, GAMMA_MAX + 1},
        d \in {MIN_AMP_CHANGING_TIME}}

\* Update with each fee field and ma_half_time given or omitted independently
FeeUpdateArgs ==
    {[kind |-> "Update", upd |-> [NoUpd EXCEPT !.mid_fee = m, !.out_fee = o, !.ma_half_time = h]] :
        m \in {None, 30, 50},
        o \in {None, 20, 40, MAX_FEE + 1},
        h \in {None, MA_HALF_TIME_MAX + 1}}

InitAny == \E params \in InstantiateParams : InitWith(params)

\* instantiation with any init_params followed by the updates of the owner
NextInit ==
    \/ Tick
    \/ \E p \in PromoteArgs : UpdateConfig(FactoryOwner, p)
    \/ \E p \in FeeUpdateArgs : UpdateConfig(FactoryOwner, p)
    \/ UpdateConfig(FactoryOwner, [kind |-> "StopChangingAmpGamma"])

SpecInit == InitAny /\ [][NextInit]_vars

\* swaps with and without belief_price and max_spread: <<offer asset, offer
\* amount, belief_price, max_spread>>
SwapArgs ==
    {<<1, 3000, None, None>>, <<1, 3000, None, MAX_ALLOWED_SLIPPAGE>>,
     <<1, 500, None, None>>, <<2, 500, None, 300>>,
     <<2, 3000, ONE, None>>, <<2, 500, ONE, 300>>,
     <<2, 3000, None, None>>, <<1, 1000, None, None>>, <<1, 1000, ONE, 300>>,
     <<1, 1012, None, MAX_ALLOWED_SLIPPAGE>>}

\* a pool under a factory with or without a fee address
InitSwap == \E fa \in {"none", "maker"} : InitFull(CommonPclParams, fa)

\* provides followed by swaps with and without spread limits
NextSwap ==
    \/ ProvideLiquidity("user1", <<Asset(1, 3000), Asset(2, 3000)>>, None)
    \/ \E sa \in SwapArgs : Swap("user2", sa[1], sa[2], sa[3], sa[4])

SpecSwap == InitSwap /\ [][NextSwap]_vars

\* provides on a pool in use, with and without a slippage tolerance:
\* <<assets, slippage_tolerance>>; balanced ones, one-sided ones, the least
\* possible one and tolerances from zero to above the allowed maximum
ProvideArgs ==
    {<<<<Asset(1, 3000), Asset(2, 3000)>>, None>>,
     <<<<Asset(1, 1000), Asset(2, 1000)>>, 0>>,
     <<<<Asset(1, 1000), Asset(2, 1000)>>, MAX_ALLOWED_SLIPPAGE + 1>>,
     <<<<Asset(2, 1)>>, MAX_ALLOWED_SLIPPAGE>>,
     <<<<Asset(2, 1)>>, 0>>,
     <<<<Asset(2, 3000)>>, 0>>,
     <<<<Asset(2, 3000)>>, MAX_ALLOWED_SLIPPAGE>>,
     <<<<Asset(1, 1000), Asset(2, 3000)>>, 200>>,
     <<<<Asset(1, 1000), Asset(2, 3000)>>, MAX_ALLOWED_SLIPPAGE + 1>>}

\* provides between swaps and blocks
NextProvide ==
    \/ Tick
    \/ \E pa \in ProvideArgs : ProvideLiquidity("user1", pa[1], pa[2])
    \/ \E i \in {1, 2}, m \in {500, MIN_TRADE_SIZE, 2000} :
          Swap("user2", i, m, None, MAX_ALLOWED_SLIPPAGE)

SpecProvide == Init /\ [][NextProvide]_vars

(* ------------------- the constant-product pair: fee sharing ------------- *)
MAX_FEE_SHARE_BPS == 1000
BPS == 10000

(* ---------------- the constant-product pair: cumulative prices ---------- *)
\* TWAP_PRECISION : the accumulators hold prices with six decimals, so that an
\* accumulator <<high, low>> is high whole price-seconds and low millionths
TWAP_PRECISION == 6
price_precision == 10 ^ TWAP_PRECISION

\* time_elapsed * price_precision * num / den, rounded down, for balances with
\* num <= 2 * den
CumulativeDelta(time_elapsed, num, den) ==
    CHOOSE delta \in {<<MulDiv2(num, time_elapsed, den), MulDiv2(rem, price_precision, den)>> :
                         rem \in {MulMod2(num, time_elapsed, den)}} : TRUE

\* accumulate_prices : in a later block than the last accumulation each
\* accumulator grows by the time elapsed times the price the balances x, y give
AccumulatedAlt(cfg, t, x, y) == FALSE
Accumulated(cfg, t, x, y) == t > cfg.block_time_last
accumulate_prices(cfg, t, x, y) ==
    IF ~Accumulated(cfg, t, x, y) THEN cfg
    ELSE IF x = <<0, 0>> \/ y = <<0, 0>> THEN [cfg EXCEPT !.block_time_last = t]
    ELSE [cfg EXCEPT
            !.price0_cumulative_last =
                Add2(@, CumulativeDelta(t - cfg.block_time_last, y, x)),
            !.price1_cumulative_last =
                Add2(@, CumulativeDelta(t - cfg.block_time_last, x, y)),
            !.block_time_last = t]

\* QueryMsg::CumulativePrices : the accumulators brought up to the time of the
\* query with the current balances; nothing is stored
query_cumulative_prices(cfg, pools, t) ==
    CHOOSE prices \in {<<c.price0_cumulative_last, c.price1_cumulative_last>> :
                          c \in {accumulate_prices(cfg, t, pools[1], pools[2])}} : TRUE

\* a ratio of two amounts with four decimals, for a <= 2 * b
Ratio4(a, b) == MulDiv2(a, ONE, b)

\* assert_slippage_tolerance of the constant-product pair: neither price the
\* deposit gives, reduced by the tolerance, may exceed the price of the pool
xyk_assert_slippage_tolerance(slippage_tolerance, deposits, pools) ==
    LET tol == IF slippage_tolerance = None THEN DEFAULT_SLIPPAGE ELSE slippage_tolerance
    IN  IF tol > MAX_ALLOWED_SLIPPAGE THEN "AllowedSpreadAssertion"
        ELSE IF \/ MulRatio(Ratio4(deposits[1], deposits[2]), ONE - tol)
                      > Ratio4(pools[1], pools[2])
                \/ MulRatio(Ratio4(deposits[2], deposits[1]), ONE - tol)
                      > Ratio4(pools[2], pools[1])
        THEN "MaxSlippageAssertion"
        ELSE "ok"

\* provide_liquidity of the constant-product pair; pools are the balances
\* before the deposit. The LP token is a contract of its own: its mint
\* message is left out of the pair model
xyk_provide_liquidity(cfg, pools, deposits, slippage_tolerance, t) ==
    LET empty == pools[1] = <<0, 0>> /\ pools[2] = <<0, 0>>
        slip  == IF empty THEN "ok"
                 ELSE xyk_assert_slippage_tolerance(slippage_tolerance, deposits, pools)
    IN  IF deposits[1] = <<0, 0>> \/ deposits[2] = <<0, 0>>
        THEN [err |-> "InvalidZeroAmount", msgs |-> <<>>, config |-> cfg]
        ELSE IF slip # "ok" THEN [err |-> slip, msgs |-> <<>>, config |-> cfg]
        ELSE [err |-> "ok", msgs |-> <<>>,
              config |-> accumulate_prices(cfg, t, pools[1], pools[2])]

\* compute_swap of the constant-product pair: the output keeps the product of
\* the two balances, the commission is taken on the output
xyk_commission(raw, commission_bps) ==
    [return_amount |-> raw - (raw * commission_bps) \div BPS,
     commission_amount |-> (raw * commission_bps) \div BPS]
xyk_compute_swap(offer_pool, ask_pool, offer_amount, commission_bps) ==
    xyk_commission(MulDiv2(ask_pool, offer_amount, Add2(offer_pool, Wide(offer_amount))),
                   commission_bps)

\* the part of the commission routed to the fee-share recipient
FeeShareNone == [bps |-> 0, recipient |-> "none"]
fee_share_amount(fee_share, commission) ==
    IF fee_share = FeeShareNone THEN 0 ELSE (commission * fee_share.bps) \div BPS

\* the maker fee accrues on what is left of the commission after the fee share
maker_fee_amountAlt(fee_info, commission, fee_share) ==
    IF fee_info.fee_address = "none" THEN 0
    ELSE (commission * fee_info.maker_fee_rate) \div BPS
maker_fee_amount(fee_info, commission, fee_share) ==
    IF fee_info.fee_address = "none" THEN 0
    ELSE ((commission - fee_share) * fee_info.maker_fee_rate) \div BPS

NonZeroSend(asset, to, amount) == IF amount = 0 THEN <<>> ELSE <<SendMsg(asset, to, amount)>>

\* swap of the constant-product pair; pools are the balances before the offer
xyk_swap(cfg, pools, fee_info, sender, offer_ind, offer_amount) ==
    LET ask_ind == 3 - offer_ind
        sr      == xyk_compute_swap(pools[offer_ind], pools[ask_ind], offer_amount,
                                    fee_info.total_fee_bps)
        shared  == fee_share_amount(cfg.fee_share, sr.commission_amount)
        maker   == maker_fee_amount(fee_info, sr.commission_amount, shared)
    IN  IF offer_amount = 0 THEN [err |-> "InvalidZeroAmount", msgs |-> <<>>]
        ELSE [err |-> "ok",
              msgs |-> <<SendMsg(ask_ind, sender, sr.return_amount)>>
                       \o NonZeroSend(ask_ind, cfg.fee_share.recipient, shared)
                       \o NonZeroSend(ask_ind, fee_info.fee_address, maker)]

\* XYKPoolUpdateParams::EnableFeeShare : bps of 0 or above the maximum is refused
FeeShareBpsValidAlt(bps) == bps <= MAX_FEE_SHARE_BPS
FeeShareBpsValid(bps) == bps # 0 /\ bps <= MAX_FEE_SHARE_BPS

\* update_config of the constant-product pair
xyk_update_config(cfg, sender, params) ==
    IF sender # cfg.owner THEN [err |-> "Unauthorized", config |-> cfg]
    ELSE IF params.kind = "EnableFeeShare"
    THEN IF ~FeeShareBpsValid(params.fee_share_bps)
         THEN [err |-> "FeeShareOutOfBounds", config |-> cfg]
         ELSE [err |-> "ok",
               config |-> [cfg EXCEPT !.fee_share = [bps |-> params.fee_share_bps,
                                                     recipient |-> params.fee_share_address]]]
    ELSE [err |-> "ok", config |-> [cfg EXCEPT !.fee_share = FeeShareNone]]

\* the pair configurations of the factory: <<maker_fee_bps, total_fee_bps>>
PairFeeConfigs == {<<3333, 30>>, <<5000, 30>>, <<3333, 10>>}
\* the balances provided to the pair, in whole tokens of 10^6 units
PairProvided == {1000000, 1000}
PairOffers == {1000000, 10000, 0}
FeeShareBpsArgs == {0, 500, MAX_FEE_SHARE_BPS, MAX_FEE_SHARE_BPS + 1}

\* the Config of the pair at instantiation
PairConfigNew ==
    [owner |-> FactoryOwner, fee_share |-> FeeShareNone,
     price0_cumulative_last |-> <<0, 0>>, price1_cumulative_last |-> <<0, 0>>,
     block_time_last |-> 0]

\* the pair after its creation by the factory and the first provide
InitPair ==
    \E fc \in PairFeeConfigs, tokens \in PairProvided :
       /\ config = [PairConfigNew EXCEPT !.block_time_last = 1]
       /\ ob_state = OrderbookStateNew
       /\ lp = [h \in Holders |-> 0]
       /\ bank = <<<<tokens, 0>>, <<tokens, 0>>>>
       /\ sub = <<0, 0>>
       /\ proposal = NoProposal
       /\ factory = [owner |-> FactoryOwner, fee_address |-> "maker",
                     maker_fee_rate |-> fc[1], total_fee_bps |-> fc[2]]
       /\ contract_active = TRUE
       /\ now = 1
       /\ nops = 0
       /\ obs = NoObservations
       /\ res = [n |-> 0, op |-> "instantiate", sender |-> "none", arg |-> fc,
                 err |-> "ok", msgs |-> <<>>, used |-> AmpGammaDefault,
                 prev |-> [op |-> "none", sender |-> "none", arg |-> <<>>, msgs |-> <<>>]]

\* the record of the outcome of a message of the pair
PairOutcome(op, sender, arg, r) ==
    [n |-> nops + 1, op |-> op, sender |-> sender, arg |-> arg, err |-> r.err,
     msgs |-> r.msgs, used |-> AmpGammaDefault,
     prev |-> [op |-> res.op, sender |-> res.sender, arg |-> res.arg, msgs |-> res.msgs]]

\* ExecuteMsg::UpdateConfig of the pair
PairUpdateConfig(sender, params) ==
    /\ nops < MaxOps
    /\ res.err = "ok"
    /\ res' = PairOutcome("update_config", sender, params,
                          [err |-> xyk_update_config(config, sender, params).err, msgs |-> <<>>])
    /\ nops' = IF res'.err = "ok" THEN nops + 1 ELSE nops
    /\ config' = xyk_update_config(config, sender, params).config
    /\ UNCHANGED <<bank, ob_state, lp, sub, proposal, factory, contract_active, now, obs>>

\* Cw20HookMsg::Swap of the pair: the offer arrives, the messages leave
PairSwap(sender, offer_ind, offer_amount) ==
    /\ nops < MaxOps
    /\ res.err = "ok"
    /\ res' = PairOutcome("swap", sender,
                          [offer_ind |-> offer_ind, offer_amount |-> offer_amount],
                          xyk_swap(config, bank, factory, sender, offer_ind, offer_amount))
    /\ nops' = IF res'.err = "ok" THEN nops + 1 ELSE nops
    /\ bank' = IF res'.err = "ok"
               THEN [i \in {1, 2} |->
                       IF i = offer_ind THEN Add2(bank[i], Wide(offer_amount))
                       ELSE Sub2(bank[i], Wide(SentTo(res'.msgs, sender, i)
                                               + SentTo(res'.msgs, config.fee_share.recipient, i)
                                               + SentTo(res'.msgs, factory.fee_address, i)))]
               ELSE bank
    /\ config' = IF res'.err = "ok" THEN accumulate_prices(config, now, bank[1], bank[2])
                 ELSE config
    /\ UNCHANGED <<ob_state, lp, sub, proposal, factory, contract_active, now, obs>>

NextPair ==
    \/ \E b \in FeeShareBpsArgs :
          PairUpdateConfig(FactoryOwner, [kind |-> "EnableFeeShare", fee_share_bps |-> b,
                                          fee_share_address |-> "contract"])
    \/ PairUpdateConfig(FactoryOwner, [kind |-> "DisableFeeShare"])
    \/ \E a \in PairOffers : PairSwap("user1", 1, a)

SpecPair == InitPair /\ [][NextPair]_vars

(* ------------- the constant-product pair: provides and idle days -------- *)
\* a day of 17280 blocks of 5 seconds
ELAPSED_SECONDS == 86400

\* deposits in whole tokens of 10^6 units, with the slippage tolerance
PairDeposits == {<<1000000, 1000000>>, <<2000000, 1000000>>, <<1000000, 2000000>>}
PairTolerances == {None, MAX_ALLOWED_SLIPPAGE, MAX_ALLOWED_SLIPPAGE + 1}

\* the pair after its creation by the factory, without liquidity
InitTwap ==
    /\ config = PairConfigNew
    /\ ob_state = OrderbookStateNew
    /\ lp = [h \in Holders |-> 0]
    /\ bank = <<<<0, 0>>, <<0, 0>>>>
    /\ sub = <<0, 0>>
    /\ proposal = NoProposal
    /\ factory = [owner |-> FactoryOwner, fee_address |-> "maker",
                  maker_fee_rate |-> 3333, total_fee_bps |-> 30]
    /\ contract_active = TRUE
    /\ now = 1
    /\ nops = 0
    /\ obs = NoObservations
    /\ res = [n |-> 0, op |-> "instantiate", sender |-> "none", arg |-> <<>>,
              err |-> "ok", msgs |-> <<>>, used |-> AmpGammaDefault,
              prev |-> [op |-> "none", sender |-> "none", arg |-> <<>>, msgs |-> <<>>]]

\* ExecuteMsg::ProvideLiquidity of the pair: the deposit arrives with the message
PairProvideLiquidity(sender, deposits, slippage_tolerance) ==
    /\ nops < MaxOps
    /\ res.err = "ok"
    /\ \E r \in {xyk_provide_liquidity(config, bank,
                                        <<<<deposits[1], 0>>, <<deposits[2], 0>>>>,
                                        slippage_tolerance, now)} :
          /\ res' = PairOutcome("provide_liquidity", sender,
                                [assets |-> deposits,
                                 slippage_tolerance |-> slippage_tolerance], r)
          /\ config' = r.config
    /\ nops' = IF res'.err = "ok" THEN nops + 1 ELSE nops
    /\ bank' = IF res'.err = "ok"
               THEN <<Add2(bank[1], <<deposits[1], 0>>), Add2(bank[2], <<deposits[2], 0>>)>>
               ELSE bank
    /\ UNCHANGED <<ob_state, lp, sub, proposal, factory, contract_active, now, obs>>

\* a day passes without a message
PairDay ==
    /\ now + ELAPSED_SECONDS <= MaxTime * ELAPSED_SECONDS
    /\ res.err = "ok"
    /\ now' = now + ELAPSED_SECONDS
    /\ UNCHANGED <<config, ob_state, lp, bank, sub, proposal, factory, contract_active, nops,
                   obs, res>>

NextTwap ==
    \/ PairDay
    \/ \E d \in PairDeposits, tol \in PairTolerances : PairProvideLiquidity("user1", d, tol)

SpecTwap == InitTwap /\ [][NextTwap]_vars

(* ----------------- messages on a pool with orders placed ---------------- *)
NextOrders ==
    \/ Tick
    \/ \E k \in {2, 4} : BeginBlocker(k)
    \/ ProvideLiquidity("user1", <<Asset(1, 3000), Asset(2, 3000)>>, None)
    \/ ProvideLiquidity("user1", <<Asset(1, 0), Asset(2, 0)>>, None)
    \/ \E m \in {1, lp["user1"]} : WithdrawLiquidity("user1", m, <<>>, "lp_token")
    \/ WithdrawLiquidity("user1", lp["user1"], <<Asset(1, 10), Asset(2, 10)>>, "lp_token")
    \/ \E i \in {1, 2}, m \in {500, 2000} : Swap("user2", i, m, None, MAX_ALLOWED_SLIPPAGE)
    \/ \E s \in {FactoryOwner, "user1"} :
          UpdateConfig(s, [kind |-> "Update", upd |-> [NoUpd EXCEPT !.mid_fee = 20]])

SpecOrders == Init /\ [][NextOrders]_vars

(* --------------------------- the fee rate alone ------------------------- *)
\* fee parameters update_params accepts: <<mid_fee, out_fee, fee_gamma>>
FeeParams == {<<26, 45, 2>>, <<26, 45, ONE>>, <<0, MAX_FEE, 100>>, <<30, 30, 1>>}
\* repriced balances the fee rate is asked for
FeeBalances == {1, 10, 1000, 3000, MaxPool}

\* a pool with fee parameters of FeeParams and no liquidity
InitFee ==
    \E fp \in FeeParams :
       /\ config = [owner |-> "none",
                    pool_params |-> [PoolParamsDefault EXCEPT !.mid_fee = fp[1],
                                                              !.out_fee = fp[2],
                                                              !.fee_gamma = fp[3]]]
       /\ ob_state = OrderbookStateNew
       /\ lp = [h \in Holders |-> 0]
       /\ bank = <<0, 0>>
       /\ sub = <<0, 0>>
       /\ proposal = NoProposal
       /\ factory = [owner |-> FactoryOwner, fee_address |-> "none", maker_fee_rate |-> 0]
       /\ contract_active = TRUE
       /\ now = 1
       /\ nops = 0
       /\ obs = NoObservations
       /\ res = [op |-> "none", arg |-> <<0, 0>>, fee |-> 0,
                 prev |-> [op |-> "none", arg |-> <<0, 0>>, fee |-> 0]]

\* PoolParams::fee applied to the repriced balances xp; the result is kept
\* next to the one of the application before
FeeRate(xp) ==
    /\ res' = [op |-> "fee", arg |-> xp, fee |-> fee(config.pool_params, xp),
               prev |-> [op |-> res.op, arg |-> res.arg, fee |-> res.fee]]
    /\ UNCHANGED <<config, ob_state, lp, bank, sub, proposal, factory, contract_active, now,
                   nops, obs>>

NextFee == \E x \in FeeBalances, y \in FeeBalances : FeeRate(<<x, y>>)

SpecFee == InitFee /\ [][NextFee]_vars

(* ------- trades of the orderbook and the withdrawal from it ------------ *)
\* a block passes while a fill is left to be processed
FillAges == Tick /\ ob_state.last_balances # sub

\* the chain deactivates the contract after its orders were placed
OrdersDeactivated == Deactivate /\ sub # <<0, 0>>

\* the owner changes the orderbook parameters of a reconciled pool
ReconciledUpdate ==
    /\ ~ob_state.need_reconcile
    /\ UpdateConfig(FactoryOwner, [kind |-> "UpdateOrderbookParams", orders_number |-> 3])

NextOb ==
    \/ FillAges
    \/ BeginBlocker(2)
    \/ \E i \in {1, 2} : OrderbookTrade(i, 1250, 1200)
    \/ OrdersDeactivated
    \/ \E s \in {"user2", FactoryOwner} : WithdrawFromOrderbook(s)
    \/ ProvideLiquidity("user1", <<Asset(1, 3000), Asset(2, 3000)>>, None)
    \/ WithdrawLiquidity("user1", lp["user1"], <<>>, "lp_token")
    \/ Swap("user2", 1, 1000, None, MAX_ALLOWED_SLIPPAGE)
    \/ ReconciledUpdate

SpecOb == Init /\ [][NextOb]_vars

(* ------------------- the replies to the pair contract ------------------ *)
\* the contract right after instantiate, the LP token not yet answered
InitReply == InitState(instantiate(CommonPclParams, 1).config, CommonPclParams, "maker")

ReplyData == {"none", "malformed", LpToken, "token2"}

TokenSet == config.pair_info.liquidity_token # ""

\* the messages of a pool whose LP token is known
ProvideWithToken ==
    TokenSet /\ ProvideLiquidity("user1", <<Asset(1, 3000), Asset(2, 3000)>>, None)
WithdrawWithToken ==
    TokenSet /\ \E c \in {LpToken, "token2"} : WithdrawLiquidity("user1", 1, <<>>, c)
SwapWithToken ==
    TokenSet /\ Swap("user2", 1, 500, None, None)
UpdateWithToken ==
    TokenSet /\ \E p \in UpdateArgs : UpdateConfig(FactoryOwner, p)
OwnerWithToken ==
    /\ TokenSet
    /\ \/ ProposeNewOwner(FactoryOwner, "user1", 1)
       \/ ClaimOwnership("user1")

NextReply ==
    \/ \E id \in {INSTANTIATE_TOKEN_REPLY_ID, 2}, data \in ReplyData : Reply(id, data)
    \/ ProvideWithToken
    \/ WithdrawWithToken
    \/ SwapWithToken
    \/ UpdateWithToken
    \/ OwnerWithToken

SpecReply == InitReply /\ [][NextReply]_vars

(* ------------- messages on a pair removed from the factory ------------- *)
NextReg ==
    \/ Deregister
    \/ \E a \in {3000, 1000} : ProvideLiquidity("user1", <<Asset(1, a), Asset(2, a)>>, None)
    \/ \E m \in {1, lp["user1"]} : WithdrawLiquidity("user1", m, <<>>, "lp_token")
    \/ \E i \in {1, 2}, m \in {500, 2000} : Swap("user2", i, m, None, MAX_ALLOWED_SLIPPAGE)

SpecReg == Init /\ [][NextReg]_vars

TypeOK ==
    /\ lp \in [Holders -> Nat]
    /\ bank[1] \in Nat /\ bank[2] \in Nat
    /\ now \in 1..MaxTime

(* ============================= properties ============================== *)
\* the step executes a message (res is replaced by its outcome)
Executes(op) == res' # res /\ res'.op = op
Succeeds(op) == Executes(op) /\ res'.err = "ok"

\* C1 : from the first successful provide_liquidity on, the LP supply is at
\* least MINIMUM_LIQUIDITY_AMOUNT and the shares minted to the pool's own
\* address stay there: no step burns or transfers them
C1_MinimumLiquidityLocked ==
    [][(Succeeds("provide_liquidity") \/ lp["pool"] >= MINIMUM_LIQUIDITY_AMOUNT)
          => /\ lp'["pool"] >= MINIMUM_LIQUIDITY_AMOUNT
             /\ TotalShare(lp') >= MINIMUM_LIQUIDITY_AMOUNT]_vars

\* every user share has been withdrawn and only the locked shares are left
C1_Witness ==
    /\ res.op = "withdraw_liquidity" /\ res.err = "ok"
    /\ TotalShare(lp) = MINIMUM_LIQUIDITY_AMOUNT
    /\ lp["pool"] = MINIMUM_LIQUIDITY_AMOUNT

\* C2 : a withdrawal with a non-empty asset list fails whatever the LP amount
\* and the state of the pool: nothing is refunded or burned, the configuration
\* and the orderbook state are unchanged (no fallback to a balanced withdrawal)
C2_ImbalancedWithdrawFails ==
    [][(Executes("withdraw_liquidity") /\ Len(res'.arg.assets) > 0)
          => /\ res'.err # "ok"
             /\ res'.msgs = <<>>
             /\ UNCHANGED <<config, ob_state, lp, bank, sub>>]_vars

C2_Witness ==
    /\ res.op = "withdraw_liquidity"
    /\ Len(res.arg.assets) > 0
    /\ res.arg.caller = "lp_token"
    /\ res.arg.amount > 1
    /\ res.arg.total_share > res.arg.amount
    /\ res.err = "ImbalancedWithdrawDisabled"

\* C3 : a balanced withdrawal of lp_amount refunds, for each asset i,
\* pools[i] * (lp_amount - 1) / total_share rounded down (lp_amount - 1
\* saturating at 0) and burns exactly lp_amount
C3_BalancedRefund ==
    [][Succeeds("withdraw_liquidity")
          => LET pools == query_pools(bank, sub)
                 amount == res'.arg.amount
                 less == IF amount >= 1 THEN amount - 1 ELSE 0
             IN  /\ \A i \in {1, 2} :
                      /\ SentTo(res'.msgs, res'.sender, i) = (pools[i] * less) \div TotalShare(lp)
                      /\ query_pools(bank', sub')[i] = pools[i] - (pools[i] * less) \div TotalShare(lp)
                 /\ Burned(res'.msgs) = amount
                 /\ TotalShare(lp') = TotalShare(lp) - amount
                 /\ lp'[res'.sender] = lp[res'.sender] - amount]_vars

C3_Witness ==
    /\ res.op = "withdraw_liquidity" /\ res.err = "ok"
    /\ res.arg.amount > 1
    /\ SentTo(res.msgs, res.sender, 1) > 0
    /\ SentTo(res.msgs, res.sender, 1) < (res.arg.pools[1] * res.arg.amount) \div res.arg.total_share

\* the last message withdrew exactly the shares that the message before it, a
\* provide of the same sender on a non-empty pool, had minted
WithdrawsLastProvide ==
    /\ res.op = "withdraw_liquidity" /\ res.err = "ok"
    /\ res.prev.op = "provide_liquidity"
    /\ res.prev.sender = res.sender
    /\ res.prev.arg.total_share > 0
    /\ res.arg.amount = MintedTo(res.prev.msgs, res.sender)

\* the deposit of the provide before the last message is in the proportion of
\* the pool balances it was added to
ProportionalDeposit ==
    /\ res.prev.arg.deposits[1] > 0
    /\ res.prev.arg.deposits[1] * res.prev.arg.pools[2]
          = res.prev.arg.deposits[2] * res.prev.arg.pools[1]

\* C4 (as stated) : a provide on a non-empty pool followed at once by the
\* withdrawal of exactly the minted shares refunds, for each of the two assets,
\* at most the amount deposited
C4_RoundTripPerAsset ==
    WithdrawsLastProvide
       => \A i \in {1, 2} : SentTo(res.msgs, res.sender, i) <= res.prev.arg.deposits[i]

\* C4 (amended) : a provide on a non-empty pool whose two deposits are in the
\* proportion of the pool balances, followed at once by the withdrawal of
\* exactly the minted shares, refunds for each asset at most the amount deposited
C4_RoundTripProportional ==
    (WithdrawsLastProvide /\ ProportionalDeposit)
       => \A i \in {1, 2} : SentTo(res.msgs, res.sender, i) <= res.prev.arg.deposits[i]

C4_Witness ==
    /\ WithdrawsLastProvide /\ ProportionalDeposit
    /\ SentTo(res.msgs, res.sender, 1) > 0
    /\ SentTo(res.msgs, res.sender, 2) > 0

\* C5 : the first provide, with xcp computed from the two deposits: when xcp
\* exceeds MINIMUM_LIQUIDITY_AMOUNT it mints exactly MINIMUM_LIQUIDITY_AMOUNT to
\* the pool's own address and xcp - MINIMUM_LIQUIDITY_AMOUNT to the receiver;
\* otherwise it fails with MinimumLiquidityAmountError and mints nothing
C5_FirstProvide ==
    [][(/\ Executes("provide_liquidity")
        /\ TotalShare(lp) = 0
        /\ AssetsError(res'.arg.assets) = "ok"
        /\ res'.arg.deposits[1] > 0 /\ res'.arg.deposits[2] > 0)
          => LET pr  == config.pool_state.price_state
                 dep == res'.arg.deposits
                 xp  == <<bank[1] + sub[1] + dep[1],
                          MulRatio(bank[2] + sub[2] + dep[2], pr.price_scale)>>
                 xcp == get_xcp(calc_d(xp, get_amp_gamma(config.pool_state, now)), pr.price_scale)
             IN  IF xcp > MINIMUM_LIQUIDITY_AMOUNT
                 THEN /\ res'.err = "ok"
                      /\ MintedTo(res'.msgs, "pool") = MINIMUM_LIQUIDITY_AMOUNT
                      /\ MintedTo(res'.msgs, res'.sender) = xcp - MINIMUM_LIQUIDITY_AMOUNT
                      /\ lp' = [lp EXCEPT !["pool"] = MINIMUM_LIQUIDITY_AMOUNT,
                                          ![res'.sender] = xcp - MINIMUM_LIQUIDITY_AMOUNT]
                 ELSE /\ res'.err = "MinimumLiquidityAmountError"
                      /\ res'.msgs = <<>>
                      /\ lp' = lp]_vars

C5_Witness ==
    /\ res.op = "provide_liquidity" /\ res.err = "ok"
    /\ res.arg.total_share = 0
    /\ lp["pool"] = MINIMUM_LIQUIDITY_AMOUNT
    /\ lp[res.sender] = MintedTo(res.msgs, res.sender)
    /\ lp[res.sender] > 0

\* the deposits of the executed provide: exactly one is zero, or both are zero
OneZero(dep) == (dep[1] = 0) # (dep[2] = 0)
BothZero(dep) == dep[1] = 0 /\ dep[2] = 0

\* a provide on a pool whose LP supply is zero fails with InvalidZeroAmount
\* whenever either deposit is zero, and leaves the state unchanged
RejectedOnEmptyPool ==
    (/\ Executes("provide_liquidity")
     /\ TotalShare(lp) = 0
     /\ AssetsError(res'.arg.assets) = "ok"
     /\ (res'.arg.deposits[1] = 0 \/ res'.arg.deposits[2] = 0))
       => /\ res'.err = "InvalidZeroAmount"
          /\ res'.msgs = <<>>
          /\ UNCHANGED <<config, ob_state, lp, bank, sub>>

\* a provide with exactly one zero (or omitted) deposit on a pool with LP supply
OneSidedOnPool ==
    /\ Executes("provide_liquidity")
    /\ TotalShare(lp) > 0
    /\ AssetsError(res'.arg.assets) = "ok"
    /\ OneZero(res'.arg.deposits)

C7_BothZeroRejected ==
    [][(/\ Executes("provide_liquidity")
        /\ AssetsError(res'.arg.assets) = "ok"
        /\ BothZero(res'.arg.deposits))
          => /\ res'.err # "ok"
             /\ res'.msgs = <<>>
             /\ UNCHANGED <<config, ob_state, lp, bank, sub>>]_vars

C7_Witness ==
    /\ res.op = "provide_liquidity"
    /\ AssetsError(res.arg.assets) = "ok"
    /\ BothZero(res.arg.deposits)
    /\ res.arg.total_share > 0
    /\ res.err # "ok"

\* C8 : update_config (Update, Promote, StopChangingAmpGamma,
\* UpdateOrderbookParams) sent by anyone but the pool owner (config.owner when
\* set, else the factory owner) fails with Unauthorized and leaves pool_params,
\* pool_state and the orderbook state unchanged; no other operation (provide,
\* withdraw, swap) changes pool_params
C8_OnlyOwnerUpdates ==
    [][/\ (/\ Executes("update_config")
           /\ res'.sender # (IF config.owner # "none" THEN config.owner ELSE factory.owner))
             => /\ res'.err = "Unauthorized"
                /\ UNCHANGED <<config, ob_state>>
       /\ ~Executes("update_config") => config'.pool_params = config.pool_params]_vars

\* the factory owner is refused once the pool has an owner of its own
C8_Witness ==
    /\ res.op = "update_config" /\ res.err = "Unauthorized"
    /\ config.owner = "user1"
    /\ res.sender = FactoryOwner
    /\ res.arg.kind = "Promote"

\* initial + (future - initial) * (t - initial_time) / (future_time - initial_time)
Interpolated(ps, t) ==
    IF t < ps.future_time
    THEN [amp   |-> ps.initial.amp
                      + ((ps.future.amp - ps.initial.amp) * (t - ps.initial_time))
                           \div (ps.future_time - ps.initial_time),
          gamma |-> ps.initial.gamma
                      + ((ps.future.gamma - ps.initial.gamma) * (t - ps.initial_time))
                           \div (ps.future_time - ps.initial_time)]
    ELSE ps.future

\* C9 : the amp and gamma an operation at block time t computes with are
\* initial + (future - initial) * (t - initial_time) / (future_time - initial_time)
\* while initial_time <= t < future_time, and exactly future from future_time
\* on: halfway through a promotion they are at the midpoint, afterwards they
\* stay at the target
C9_LinearInterpolation ==
    [][(Succeeds("provide_liquidity") \/ Succeeds("withdraw_liquidity") \/ Succeeds("swap"))
          => /\ res'.used = Interpolated(config.pool_state, now)
             /\ now >= config.pool_state.future_time => res'.used = config.pool_state.future
             /\ config.pool_state.initial_time <= now]_vars

\* an operation halfway through the promotion from (40, 0.0100) to (44, 0.0090)
C9_Witness ==
    /\ res.op = "provide_liquidity" /\ res.err = "ok"
    /\ config.pool_state.initial_time < now /\ now < config.pool_state.future_time
    /\ 2 * (now - config.pool_state.initial_time)
          = config.pool_state.future_time - config.pool_state.initial_time
    /\ res.used = [amp |-> 42 * AMP_ONE, gamma |-> 95]

\* C10 : a successful Promote does not change the amp and gamma in effect at
\* its block: it stores initial = the values interpolated at now,
\* initial_time = now, future = (next_amp, next_gamma) and the given
\* future_time, also when an earlier promotion is still in progress
C10_PromoteKeepsCurrent ==
    [][(Succeeds("update_config") /\ res'.arg.kind = "Promote")
          => LET cur == get_amp_gamma(config.pool_state, now)
                 ps2 == config'.pool_state
             IN  /\ ps2.initial = cur
                 /\ ps2.initial_time = now
                 /\ ps2.future = [amp |-> res'.arg.next_amp, gamma |-> res'.arg.next_gamma]
                 /\ ps2.future_time = res'.arg.future_time
                 /\ get_amp_gamma(ps2, now) = cur
                 /\ ps2.price_state = config.pool_state.price_state]_vars

\* a Promote accepted while the earlier promotion was in progress
C10_Witness ==
    /\ res.op = "update_config" /\ res.err = "ok" /\ res.arg.kind = "Promote"
    /\ res.prev.op = "update_config" /\ res.prev.arg.kind = "Promote"
    /\ now < res.prev.arg.future_time
    /\ config.pool_state.initial_time = now
    /\ config.pool_state.initial.amp > 40 * AMP_ONE
    /\ config.pool_state.initial.amp < config.pool_state.future.amp

\* the last message is a successful update_config of the given kind
Updated(kind) == res.op = "update_config" /\ res.err = "ok" /\ res.arg.kind = kind

\* C11 : StopChangingAmpGamma executed at time now sets initial = future = the
\* amp and gamma interpolated at now and future_time = now, so at every later
\* time the amp and gamma in effect are that frozen value; executed a second
\* time at the same timestamp it leaves the PoolState as the first left it
C11_StopFreezes ==
    [][(Succeeds("update_config") /\ res'.arg.kind = "StopChangingAmpGamma")
          => LET cur == get_amp_gamma(config.pool_state, now)
                 ps2 == config'.pool_state
             IN  /\ ps2.initial = cur
                 /\ ps2.future = cur
                 /\ ps2.future_time = now
                 /\ \A t \in now..(MaxTime + 1) : get_amp_gamma(ps2, t) = cur
                 /\ stop_promotion(ps2, now) = ps2
                 /\ (Updated("StopChangingAmpGamma") /\ config.pool_state.future_time = now)
                       => config'.pool_state = config.pool_state]_vars

\* a running promotion was stopped, and stopped again in the same block
C11_Witness ==
    /\ Updated("StopChangingAmpGamma")
    /\ res.prev.op = "update_config" /\ res.prev.arg.kind = "StopChangingAmpGamma"
    /\ config.pool_state.future_time = now
    /\ config.pool_state.future.amp > 40 * AMP_ONE
    /\ config.pool_state.future.amp < 44 * AMP_ONE
    /\ config.pool_state.initial = config.pool_state.future

\* the instantiation succeeded and stored the configuration
Stored == "pool_state" \in DOMAIN config

\* C12 : in every reachable state, after instantiate and any sequence of
\* Promote and StopChangingAmpGamma at increasing block times, the amp in
\* effect lies in [AMP_MIN, AMP_MAX] and the gamma in effect within its bounds;
\* instantiate or Promote with an amp or gamma out of range fails with
\* IncorrectPoolParam and stores nothing
C12_AmpGammaInBounds ==
    /\ [](Stored => AmpGammaValid(get_amp_gamma(config.pool_state, now).amp,
                                  get_amp_gamma(config.pool_state, now).gamma))
    /\ []((/\ res.op = "instantiate"
           /\ res.arg.price_scale # 0
           /\ ~AmpGammaValid(res.arg.amp, res.arg.gamma))
             => res.err = "IncorrectPoolParam" /\ ~Stored)
    /\ [][(/\ Executes("update_config")
           /\ res'.arg.kind = "Promote"
           /\ ~AmpGammaValid(res'.arg.next_amp, res'.arg.next_gamma))
             => /\ res'.err # "ok"
                /\ res'.arg.future_time >= now + MIN_AMP_CHANGING_TIME
                      => res'.err = "IncorrectPoolParam"
                /\ UNCHANGED <<config, ob_state>>]_vars

\* a pool at the upper bound of amp refuses a Promote above it
C12_Witness ==
    /\ Stored
    /\ res.op = "update_config" /\ res.arg.kind = "Promote"
    /\ res.arg.next_amp > AMP_MAX
    /\ res.err = "IncorrectPoolParam"
    /\ get_amp_gamma(config.pool_state, now).amp = AMP_MAX

\* 0 <= mid_fee <= out_fee <= max_fee and ma_half_time within MA_HALF_TIME_LIMITS
FeesValid(pp) ==
    /\ 0 <= pp.mid_fee /\ pp.mid_fee <= pp.out_fee /\ pp.out_fee <= MAX_FEE
    /\ MA_HALF_TIME_MIN <= pp.ma_half_time /\ pp.ma_half_time <= MA_HALF_TIME_MAX

\* the pool parameters an Update asks for: the given fields over the stored ones
Requested(pp, upd) ==
    [pp EXCEPT !.mid_fee = IF upd.mid_fee = None THEN @ ELSE upd.mid_fee,
               !.out_fee = IF upd.out_fee = None THEN @ ELSE upd.out_fee,
               !.ma_half_time = IF upd.ma_half_time = None THEN @ ELSE upd.ma_half_time]

C14_InitialEqualsFuture ==
    (res.op = "instantiate" /\ Stored)
       => config.pool_state.initial = config.pool_state.future

\* C14 (amended) : the PoolState stored by instantiate has initial = the
\* default (zero) AmpGamma at initial_time 0 and future = the given amp and
\* gamma at future_time = the block time of the instantiation, so the amp and
\* gamma in effect are future from the instantiation on: no promotion is in
\* progress
C14_NoPromotionAfterInstantiate ==
    (res.op = "instantiate" /\ Stored)
       => LET ps == config.pool_state
          IN  /\ ps.initial = AmpGammaDefault
              /\ ps.initial_time = 0
              /\ ps.future = [amp |-> res.arg.amp, gamma |-> res.arg.gamma]
              /\ ps.future_time <= now
              /\ \A t \in now..(MaxTime + 1) : get_amp_gamma(ps, t) = ps.future

\* a pool instantiated at the bounds of amp and gamma, one block later
C14_Witness ==
    /\ res.op = "instantiate" /\ Stored
    /\ now > config.pool_state.future_time
    /\ config.pool_state.future = [amp |-> AMP_MAX, gamma |-> GAMMA_MAX]

SwapResultOf(arg) ==
    compute_swap(query_pools(bank, sub), arg.offer_amount, 3 - arg.offer_ind, config, now,
                 IF factory.fee_address # "none" THEN factory.maker_fee_rate ELSE 0)

\* the swap message finds a pool it can trade against
Tradable(arg) ==
    /\ arg.offer_amount > 0
    /\ query_pools(bank, sub)[1] > 0 /\ query_pools(bank, sub)[2] > 0
    /\ TotalShare(lp) > 0

\* the spread of a swap exceeds the allowed maximum: against belief_price when
\* supplied, else the spread amount against the return before the spread
SpreadExceeded(arg, sr) ==
    LET ms == IF arg.max_spread = None THEN DEFAULT_SLIPPAGE ELSE arg.max_spread
        expected == (arg.offer_amount * ONE) \div arg.belief_price
    IN  IF arg.belief_price # None
        THEN sr.dy < expected /\ (expected - sr.dy) * ONE > ms * expected
        ELSE sr.spread_fee * ONE > ms * (sr.dy + sr.spread_fee)

C17_MakerFeeSplit ==
    [][Succeeds("swap") =>
         LET arg == res'.arg
             ask == 3 - arg.offer_ind
             sr  == SwapResultOf(arg)
             maker_fee == IF factory.fee_address # "none"
                          THEN MulRatio(sr.total_fee, factory.maker_fee_rate) ELSE 0
         IN  /\ bank'[ask] = bank[ask] - (sr.dy + maker_fee)
             /\ bank'[arg.offer_ind] = bank[arg.offer_ind] + arg.offer_amount
             /\ res'.msgs =
                  IF factory.fee_address # "none" /\ maker_fee # 0
                  THEN <<SendMsg(ask, res'.sender, sr.dy),
                         SendMsg(ask, factory.fee_address, maker_fee)>>
                  ELSE <<SendMsg(ask, res'.sender, sr.dy)>>]_vars

\* a swap with a spread fee that pays a maker fee to the fee address
C17_Witness ==
    /\ res.op = "swap" /\ res.err = "ok"
    /\ Len(res.msgs) = 2
    /\ res.msgs[2].to = factory.fee_address /\ res.msgs[2].amount > 0
    /\ res.msgs[1].amount < res.arg.offer_amount

\* a swap under a factory without a fee address
C17_WitnessNoFeeAddress ==
    /\ res.op = "swap" /\ res.err = "ok"
    /\ factory.fee_address = "none"
    /\ res.arg.offer_amount = 3000

\* the swap of the fee-share test: 1,000,000 units offered to a pair holding
\* 10^12 of each token, maker_fee_bps 3333, total_fee_bps 30, fee_share_bps 1000
FeeShareScenario ==
    /\ bank = <<<<1000000, 0>>, <<1000000, 0>>>>
    /\ factory.maker_fee_rate = 3333 /\ factory.total_fee_bps = 30
    /\ config.fee_share.bps = 1000
    /\ res'.arg.offer_amount = 1000000

\* a successful swap of the pair splits its fee by the two formulas, the rest
\* staying in the pool, and in the scenario pays the two amounts given
FeeSplit(scenario_share, scenario_maker) ==
    Succeeds("swap") =>
       LET arg == res'.arg
           ask == 3 - arg.offer_ind
           sr  == xyk_compute_swap(bank[arg.offer_ind], bank[ask], arg.offer_amount,
                                   factory.total_fee_bps)
           total_fee == sr.commission_amount
           share == IF config.fee_share = FeeShareNone THEN 0
                    ELSE (total_fee * config.fee_share.bps) \div BPS
           maker == ((total_fee - share) * factory.maker_fee_rate) \div BPS
       IN  /\ SentTo(res'.msgs, res'.sender, ask) = sr.return_amount
           /\ SentTo(res'.msgs, "contract", ask) = share
           /\ SentTo(res'.msgs, factory.fee_address, ask) = maker
           /\ bank'[ask] = Sub2(bank[ask], Wide(sr.return_amount + share + maker))
           /\ FeeShareScenario =>
                 /\ SentTo(res'.msgs, "contract", ask) = scenario_share
                 /\ SentTo(res'.msgs, factory.fee_address, ask) = scenario_maker

C19_FeeShareBounds ==
    /\ [](\/ config.fee_share = FeeShareNone
          \/ /\ 0 < config.fee_share.bps /\ config.fee_share.bps <= MAX_FEE_SHARE_BPS
             /\ config.fee_share.recipient # "none")
    /\ [][(/\ Executes("update_config")
           /\ res'.arg.kind = "EnableFeeShare"
           /\ (res'.arg.fee_share_bps = 0 \/ res'.arg.fee_share_bps > MAX_FEE_SHARE_BPS))
             => res'.err = "FeeShareOutOfBounds" /\ config' = config]_vars
    /\ [][(Succeeds("update_config") /\ res'.arg.kind = "DisableFeeShare")
             => config'.fee_share = FeeShareNone]_vars

\* an enabled fee share survives a refused EnableFeeShare with bps = 0
C19_Witness ==
    /\ res.op = "update_config" /\ res.arg.kind = "EnableFeeShare"
    /\ res.arg.fee_share_bps = 0
    /\ res.err = "FeeShareOutOfBounds"
    /\ config.fee_share = [bps |-> 500, recipient |-> "contract"]

\* fee sharing disabled after it was enabled
C19_WitnessDisabled ==
    /\ res.op = "update_config" /\ res.arg.kind = "DisableFeeShare" /\ res.err = "ok"
    /\ res.prev.op = "update_config" /\ res.prev.arg.kind = "EnableFeeShare"
    /\ config.fee_share = FeeShareNone

\* the result provide_liquidity gives the provide of the step with its two
\* assets in the other order, for the same funds on the same pool
ReversedProvide ==
    LET arg   == res'.arg
        bank1 == <<bank[1] + arg.deposits[1], bank[2] + arg.deposits[2]>>
    IN  provide_liquidity(config, ob_state, query_pools(bank1, sub), TotalShare(lp), sub,
                          res'.sender, <<arg.assets[2], arg.assets[1]>>,
                          arg.slippage_tolerance, now, factory)

\* C20 : provide_liquidity gives the same minted share, the same resulting
\* Config and the same transfers whether its two assets are passed as [a0, a1]
\* or as [a1, a0]
C20_AssetOrderIndependent ==
    [][(Executes("provide_liquidity") /\ Len(res'.arg.assets) = 2) =>
          /\ ReversedProvide.err = res'.err
          /\ ReversedProvide.err = "ok" =>
                /\ ReversedProvide.msgs = res'.msgs
                /\ ReversedProvide.config = config'
          /\ ReversedProvide.err # "ok" => config' = config]_vars

\* an imbalanced provide on a pool with its assets in reverse order
C20_Witness ==
    /\ res.op = "provide_liquidity" /\ res.err = "ok"
    /\ Len(res.arg.assets) = 2
    /\ res.arg.assets[1].info = 2 /\ res.arg.assets[2].info = 1
    /\ res.arg.assets[1].amount # res.arg.assets[2].amount
    /\ res.arg.total_share > 0
    /\ MintedTo(res.msgs, res.sender) > 0

\* the share, the deviation from the balanced share and the slippage of the
\* provide message of the step, computed on the non-empty pool it finds
ProvideCase(arg) ==
    LET pr     == config.pool_state.price_state
        xs     == arg.pools
        dep    == arg.deposits
        new_xp == <<xs[1] + dep[1], MulRatio(xs[2] + dep[2], pr.price_scale)>>
        old_xp == <<xs[1], MulRatio(xs[2], pr.price_scale)>>
        ag     == get_amp_gamma(config.pool_state, now)
        share  == NextShare(arg.total_share, calc_d(new_xp, ag), calc_d(old_xp, ag),
                            dep, new_xp, config)
    IN  [share    |-> share,
         diff     |-> AssetsDiff(dep, new_xp, share, arg.total_share, pr.price_scale),
         slippage |-> SlippageOf(dep, share, pr)]

\* a provide of at least one asset on a pool that holds both assets
ProvideOnPool(arg) ==
    /\ AssetsError(arg.assets) = "ok"
    /\ arg.total_share > 0 /\ arg.pools[1] > 0 /\ arg.pools[2] > 0
    /\ arg.deposits[1] + arg.deposits[2] > 0

\* C21 : on a non-empty pool the slippage tolerance is asserted only when the
\* deviation of the deposit from the balanced share reaches the minimum trade
\* size on both assets: the provide then fails with MaxSpreadAssertion when its
\* slippage exceeds the tolerance; a deposit whose deviation is below the
\* minimum on either asset is accepted whatever the tolerance and leaves the
\* price state unchanged
C21_SlippageOnlyWhenDiverging ==
    [][(Executes("provide_liquidity") /\ ProvideOnPool(res'.arg)) =>
         LET arg == res'.arg
             pc  == ProvideCase(arg)
             tol == IF arg.slippage_tolerance = None THEN DEFAULT_SLIPPAGE
                    ELSE arg.slippage_tolerance
             both   == pc.diff[1] >= MIN_TRADE_SIZE /\ pc.diff[2] >= MIN_TRADE_SIZE
         IN  /\ res'.err \in {"MaxSpreadAssertion", "AllowedSpreadAssertion"} => both
             /\ (both /\ tol <= MAX_ALLOWED_SLIPPAGE /\ pc.slippage > tol)
                    => res'.err = "MaxSpreadAssertion"
             /\ ~both =>
                    /\ res'.err = "ok"
                    /\ config'.pool_state.price_state = config.pool_state.price_state]_vars

\* a deposit below the minimum on one asset is accepted with a tolerance that a
\* diverging deposit is refused for
C21_Witness ==
    /\ res.op = "provide_liquidity" /\ res.err = "ok"
    /\ res.arg.total_share > 0
    /\ res.arg.slippage_tolerance \in {0, MAX_ALLOWED_SLIPPAGE + 1}

\* a diverging deposit is refused for its slippage
C21_WitnessRefused ==
    /\ res.op = "provide_liquidity" /\ res.err = "MaxSpreadAssertion"
    /\ res.arg.total_share > 0

\* the repriced balances after the deposit of the provide message of the step
NewXp(arg) ==
    <<arg.pools[1] + arg.deposits[1],
      MulRatio(arg.pools[2] + arg.deposits[2], config.pool_state.price_state.price_scale)>>

C22_WitnessNoUpdate ==
    /\ res.op = "provide_liquidity" /\ res.err = "ok"
    /\ config.pool_state.price_state.last_price_update < now

\* the repriced balances and the LP supply that the swap or provide message of
\* the step hands to update_price
PriceUpdateInput(r) ==
    IF r.op = "swap"
    THEN LET sr  == SwapResultOf(r.arg)
             ask == 3 - r.arg.offer_ind
             xs0 == query_pools(bank, sub)
             xs1 == [xs0 EXCEPT ![r.arg.offer_ind] = @ + r.arg.offer_amount,
                                ![ask] = @ - (sr.dy + sr.maker_fee)]
         IN  [xs |-> <<xs1[1], MulRatio(xs1[2], config.pool_state.price_state.price_scale)>>,
              total_share |-> TotalShare(lp)]
    ELSE [xs |-> NewXp(r.arg), total_share |-> r.arg.total_share + ProvideCase(r.arg).share]

\* C23 : the price scale changes only in a successful swap or provide whose
\* price update finds (a) the oracle price further from the price scale than
\* min_price_scale_delta and (b) the profit per share at the candidate scale not
\* more than repeg_profit_threshold below the one at the current scale; in
\* every other step the price scale stays as it was
C23_RepegOnlyWhenJustified ==
    [][(Stored /\ config'.pool_state.price_state.price_scale
                     # config.pool_state.price_state.price_scale) =>
         /\ res' # res /\ res'.err = "ok" /\ res'.op \in {"swap", "provide_liquidity"}
         /\ LET inp == PriceUpdateInput(res')
                pp  == config.pool_params
                rc  == RepegCase(config.pool_state, pp, now, inp.total_share, inp.xs)
            IN  /\ rc.norm > pp.min_price_scale_delta
                /\ rc.creal + pp.repeg_profit_threshold >= rc.real
                /\ config'.pool_state.price_state.price_scale = rc.cand]_vars

\* a price update moved the oracle price or the last price and kept the price scale
C23_Witness ==
    /\ Stored
    /\ config.pool_state.price_state.price_scale = CommonPclParams.price_scale
    /\ \/ config.pool_state.price_state.oracle_price # CommonPclParams.price_scale
       \/ config.pool_state.price_state.last_price # CommonPclParams.price_scale

\* a price update moved the price scale
C23_WitnessRepeg ==
    /\ Stored
    /\ config.pool_state.price_state.price_scale # CommonPclParams.price_scale

\* both legs of the swap message of the step reach the minimum trade size
BothLegs(r) ==
    r.arg.offer_amount >= MIN_TRADE_SIZE /\ r.msgs[1].amount >= MIN_TRADE_SIZE

\* the most recent trade data held: the precommit observation when there is
\* one, else the last observation of the buffer
LatestObservation(o) ==
    IF o.precommit.precommit_ts # 0
    THEN [ts |-> o.precommit.precommit_ts,
          price |-> (o.precommit.base_amount * ONE) \div o.precommit.quote_amount]
    ELSE IF o.buffer # <<>> THEN o.buffer[Len(o.buffer)]
    ELSE [ts |-> 0, price |-> 0]

\* C24 as stated : a successful swap with a leg below the minimum trade size
\* leaves the observation data (precommit observation and buffer) unchanged
C24_SmallSwapLeavesData ==
    [][(Succeeds("swap") /\ ~BothLegs(res')) => obs' = obs]_vars

\* C24 : a successful swap stores its trade in the precommit observation exactly
\* when both legs (offer amount and return amount) reach the minimum trade
\* size; with a leg below it the precommit observation and the most recent
\* trade data stay as they were; the only change a swap makes to the buffer is
\* to store, once, the pending precommit observation of an earlier swap
C24_ObservationOnlyForBothLegs ==
    [][Succeeds("swap") =>
         LET arg   == res'.arg
             dy    == res'.msgs[1].amount
             base  == IF arg.offer_ind = 1 THEN arg.offer_amount ELSE dy
             quote == IF arg.offer_ind = 1 THEN dy ELSE arg.offer_amount
             pre   == obs.precommit
             pre1  == obs'.precommit
         IN  /\ BothLegs(res') =>
                   /\ pre1.precommit_ts = now
                   /\ pre1.base_amount =
                         (IF pre.precommit_ts = now THEN pre.base_amount ELSE 0) + base
                   /\ pre1.quote_amount =
                         (IF pre.precommit_ts = now THEN pre.quote_amount ELSE 0) + quote
             /\ ~BothLegs(res') =>
                   /\ pre1 = pre
                   /\ LatestObservation(obs') = LatestObservation(obs)
             /\ \/ obs'.buffer = obs.buffer
                \/ /\ pre.precommit_ts # 0
                   /\ \/ obs.buffer = <<>> /\ pre.precommit_ts < now
                      \/ obs.buffer # <<>> /\ obs.buffer[Len(obs.buffer)].ts < pre.precommit_ts
                   /\ obs'.buffer =
                         Append(obs.buffer,
                                [ts |-> pre.precommit_ts,
                                 price |-> (pre.base_amount * ONE) \div pre.quote_amount])]_vars

\* a swap with the return below the minimum trade size, in a block after a
\* recorded swap, stored the pending observation and recorded nothing itself
C24_Witness ==
    /\ res.op = "swap" /\ res.err = "ok"
    /\ res.arg.offer_amount >= MIN_TRADE_SIZE /\ res.msgs[1].amount < MIN_TRADE_SIZE
    /\ obs.precommit.precommit_ts # 0 /\ obs.precommit.precommit_ts < now
    /\ obs.buffer # <<>>

\* a swap with both legs at the minimum trade size or above was recorded
C24_WitnessRecorded ==
    /\ res.op = "swap" /\ res.err = "ok"
    /\ res.msgs[1].amount >= MIN_TRADE_SIZE
    /\ obs.precommit.precommit_ts = now

\* query_lp_price : the LP virtual price, xcp of the pool at the current price
\* scale divided by the LP total supply (0 for a pool without shares)
query_lp_price(cfg, pools, total_share, t) ==
    LET price_scale == cfg.pool_state.price_state.price_scale
        xs == <<pools[1], MulRatio(pools[2], price_scale)>>
    IN  IF total_share = 0 \/ CalcDFails(xs) THEN 0
        ELSE (get_xcp(calc_d(xs, get_amp_gamma(cfg.pool_state, t)), price_scale) * ONE)
                 \div total_share

\* the LP virtual price of the state
LpPrice == query_lp_price(config, query_pools(bank, sub), TotalShare(lp), now)

CumulativePrices == query_cumulative_prices(config, bank, now)

\* the pool was seeded 1,000,000/1,000,000 and, a day later, took a provide of
\* 2,000,000/1,000,000, which is the last message
TwapScenario ==
    /\ res.op = "provide_liquidity" /\ res.err = "ok" /\ res.arg.assets = <<2000000, 1000000>>
    /\ res.prev.op = "provide_liquidity" /\ res.prev.arg.assets = <<1000000, 1000000>>
    /\ bank = <<<<3000000, 0>>, <<2000000, 0>>>>
    /\ now >= 1 + ELAPSED_SECONDS

\* C26 : after the 1,000,000/1,000,000 seed, an idle day and the
\* 2,000,000/1,000,000 provide, the CumulativePrices reads before and after
\* another idle day of ELAPSED_SECONDS differ by 57600 whole units for asset 0
\* and by 129600 for asset 1; and in every step each cumulative price read
\* after the step is at least the one read before it
C26_CumulativePricesExtrapolate ==
    [][\A before \in {CumulativePrices},
          after \in {query_cumulative_prices(config', bank', now')} :
          /\ (TwapScenario /\ now' = now + ELAPSED_SECONDS) =>
                /\ Sub2(after[1], before[1])[1] = 57600
                /\ Sub2(after[2], before[2])[1] = 129600
          /\ Geq2(after[1], before[1])
          /\ Geq2(after[2], before[2])]_vars

\* the second idle day of the scenario has passed
C26_Witness ==
    /\ TwapScenario
    /\ now = 1 + 2 * ELAPSED_SECONDS
    /\ CumulativePrices[1][1] = ELAPSED_SECONDS + 57600
    /\ CumulativePrices[2][1] = ELAPSED_SECONDS + 129600

\* balances b are at least as far from the 50/50 split as balances a: the
\* difference of the two balances is at least as large a part of their sum
FurtherFromBalance(b, a) ==
    Diff(b[1], b[2]) * (a[1] + a[2]) >= Diff(a[1], a[2]) * (b[1] + b[2])

CurrentOwner == IF config.owner # "none" THEN config.owner ELSE factory.owner

\* C29 : config.owner changes only in a successful ClaimOwnership sent by the
\* proposed address, and becomes that address; ProposeNewOwner succeeds only
\* for the current owner; ClaimOwnership fails when there is no proposal and
\* fails with Unauthorized for a sender other than the proposed address
C29_TwoStepOwnership ==
    [][/\ (Stored /\ config'.owner # config.owner) =>
             /\ Succeeds("claim_ownership")
             /\ proposal # NoProposal /\ res'.sender = proposal.owner
             /\ config'.owner = proposal.owner
       /\ Succeeds("propose_new_owner") => res'.sender = CurrentOwner
       /\ (Executes("claim_ownership") /\ proposal = NoProposal) =>
             /\ res'.err = "OwnershipProposalNotFound"
             /\ config' = config /\ proposal' = proposal
       /\ (Executes("claim_ownership") /\ proposal # NoProposal
             /\ res'.sender # proposal.owner) =>
             /\ res'.err = "Unauthorized"
             /\ config' = config /\ proposal' = proposal]_vars

\* the proposed address claimed the ownership the factory owner had proposed
C29_Witness ==
    /\ res.op = "claim_ownership" /\ res.err = "ok"
    /\ res.prev.op = "propose_new_owner" /\ res.prev.sender = factory.owner
    /\ config.owner = res.sender /\ config.owner = res.prev.arg.owner
    /\ proposal = NoProposal

\* a claim by an address other than the proposed one was refused
C29_WitnessRefused ==
    /\ res.op = "claim_ownership" /\ res.err = "Unauthorized"
    /\ proposal # NoProposal /\ res.sender # proposal.owner

RegisteredFactory == [factory EXCEPT !.pair_registered = TRUE]

\* C31 : on a pair that is not registered in the factory, provide_liquidity
\* fails with PairIsNotRegistered and changes nothing, while swap and
\* withdraw_liquidity give the outcome they give with the pair registered
C31_UnregisteredPair ==
    [][~factory.pair_registered =>
         /\ Executes("provide_liquidity") =>
               /\ res'.err = "PairIsNotRegistered" /\ res'.msgs = <<>>
               /\ UNCHANGED <<config, ob_state, lp, bank, sub, obs, proposal>>
         /\ Executes("swap") =>
               \A r \in {swap(config, ob_state,
                              query_pools([bank EXCEPT ![res'.arg.offer_ind] =
                                              @ + res'.arg.offer_amount], sub),
                              TotalShare(lp), sub, RegisteredFactory, res'.sender,
                              res'.arg.offer_ind, res'.arg.offer_amount,
                              res'.arg.belief_price, res'.arg.max_spread, now)} :
                  /\ res'.err = r.err
                  /\ r.err = "ok" => config' = r.config /\ res'.msgs = r.msgs
         /\ Executes("withdraw_liquidity") =>
               \A r \in {withdraw_liquidity(config, ob_state, query_pools(bank, sub),
                                            TotalShare(lp), bank, res'.arg.caller, res'.sender,
                                            res'.arg.amount, res'.arg.assets, now)} :
                  /\ res'.err = r.err
                  /\ r.err = "ok" => config' = r.config /\ res'.msgs = r.msgs]_vars

\* a provide was refused on a pool with liquidity whose pair was deregistered
C31_Witness ==
    /\ ~factory.pair_registered
    /\ res.op = "provide_liquidity" /\ res.err = "PairIsNotRegistered"
    /\ TotalShare(lp) > 0

\* a swap and a withdrawal succeeded after the pair was deregistered
C31_WitnessAvailable ==
    /\ ~factory.pair_registered
    /\ res.op = "withdraw_liquidity" /\ res.err = "ok"
    /\ res.prev.op = "swap"

\* C32 : WithdrawFromOrderbook fails and changes nothing while the chain
\* reports the pair contract as active; on an inactive contract it succeeds
\* whoever sends it, the whole subaccount balance returns to the contract (less
\* the maker fee of a trade processed by the call), and the orderbook state is
\* stored with enabled = false, need_reconcile = false, last_balances = zero
C32_EmergencyWithdraw ==
    [][Executes("withdraw_from_orderbook") =>
         IF contract_active
         THEN /\ res'.err # "ok" /\ res'.msgs = <<>>
              /\ UNCHANGED <<config, ob_state, lp, bank, sub, obs, proposal>>
         ELSE /\ res'.err = "ok"
              /\ sub' = <<0, 0>>
              /\ \A i \in {1, 2} :
                    bank'[i] = bank[i] + sub[i] - SentTo(res'.msgs, factory.fee_address, i)
              /\ ~ob_state'.enabled
              /\ ~ob_state'.need_reconcile
              /\ ob_state'.last_balances = <<0, 0>>
              /\ lp' = lp]_vars

\* a user who is not the owner withdrew a subaccount that held liquidity and
\* had traded: the subaccount was left and the maker fee of the trade was sent
C32_Witness ==
    /\ res.op = "withdraw_from_orderbook" /\ res.err = "ok" /\ res.sender = "user2"
    /\ Len(res.msgs) = 2 /\ res.msgs[1] = LeaveMsg
    /\ sub = <<0, 0>> /\ bank[1] > 0
    /\ ~ob_state.enabled /\ ~contract_active

\* the withdrawal was refused on an active contract with liquidity in the subaccount
C32_WitnessActive ==
    /\ res.op = "withdraw_from_orderbook" /\ res.err = "ContractIsActive"
    /\ contract_active /\ sub[1] > 0

\* C33 : a WithdrawFromOrderbook that follows a successful one, with no
\* message in between, succeeds and does nothing: its response holds no
\* message (no fund movement, no maker fee), and the balances of the pool,
\* Config and the orderbook state are the ones before it
C33_SecondWithdrawIdle ==
    [][(/\ Executes("withdraw_from_orderbook")
        /\ res.op = "withdraw_from_orderbook" /\ res.err = "ok") =>
          /\ res'.err = "ok"
          /\ res'.msgs = <<>>
          /\ UNCHANGED <<config, ob_state, bank, sub, lp>>]_vars

\* the second withdrawal ran on a pool with liquidity whose subaccount had
\* been emptied by the first
C33_Witness ==
    /\ res.op = "withdraw_from_orderbook" /\ res.err = "ok"
    /\ res.prev.op = "withdraw_from_orderbook" /\ res.prev.msgs # <<>>
    /\ bank[1] > 0 /\ sub = <<0, 0>>

\* the number of transfers to an address in a response
RECURSIVE SendsTo(_, _)
SendsTo(msgs, to) ==
    IF msgs = <<>> THEN 0
    ELSE (IF Head(msgs).type = "send" /\ Head(msgs).to = to THEN 1 ELSE 0) + SendsTo(Tail(msgs), to)

\* the outcome of the handler of a provide_liquidity or swap taken in this
\* step, had the trade of the orderbook been processed before the message:
\* Config and balances xs as the trade processing left them, the subaccount
\* balances stored
AfterTrade(op, pct) ==
    IF op = "swap"
    THEN swap(pct.config, StoreLastBalances(ob_state, sub),
              [pct.xs EXCEPT ![res'.arg.offer_ind] = @ + res'.arg.offer_amount],
              TotalShare(lp), sub, factory, res'.sender, res'.arg.offer_ind,
              res'.arg.offer_amount, res'.arg.belief_price, res'.arg.max_spread, now)
    ELSE provide_liquidity(pct.config, StoreLastBalances(ob_state, sub),
                           <<pct.xs[1] + res'.arg.deposits[1], pct.xs[2] + res'.arg.deposits[2]>>,
                           TotalShare(lp), sub, res'.sender, res'.arg.assets,
                           res'.arg.slippage_tolerance, now, factory)

\* C34 : a provide_liquidity or swap that finds the subaccount balances
\* different from last_balances processes the trade of the orderbook before
\* its own computation (the maker fee of the trade is the first message, the
\* price is updated in this block, and the rest is the outcome of the message
\* on the pool the trade processing left) and stores the balances it saw as
\* last_balances; a provide_liquidity or swap that finds them equal sends no
\* maker fee of the orderbook: a provide sends nothing to the fee address, a
\* swap at most the maker fee of the swap, in the asset it pays out
C34_TradeProcessedOnce ==
    [][\A op \in {"provide_liquidity", "swap"} :
          Succeeds(op) =>
            \A tr \in {CumulativeTrade(ob_state.last_balances, sub)} :
            \A pct \in {TradeProcessed(config, ob_state, query_pools(bank, sub), sub, factory,
                                       TotalShare(lp), now)} :
            \A r \in {AfterTrade(op, pct)} :
               /\ ob_state'.last_balances = sub
               /\ config' = r.config
               /\ res'.msgs = pct.msgs \o r.msgs
               /\ SendsTo(r.msgs, factory.fee_address) <= (IF op = "swap" THEN 1 ELSE 0)
               /\ SentTo(r.msgs, factory.fee_address,
                         IF op = "swap" THEN res'.arg.offer_ind ELSE 1) = 0
               /\ ob_state.last_balances = sub => pct.msgs = <<>>
               /\ (/\ tr.traded
                   /\ tr.ask_amount * config.pool_params.mid_fee * factory.maker_fee_rate
                        >= ONE * ONE) =>
                     /\ pct.msgs # <<>>
                     /\ res'.msgs[1].type = "send" /\ res'.msgs[1].to = factory.fee_address
                     /\ res'.msgs[1].asset = tr.ask_ind /\ res'.msgs[1].amount > 0
               /\ (/\ tr.traded
                   /\ tr.offer_amount >= MIN_TRADE_SIZE /\ tr.ask_amount >= MIN_TRADE_SIZE) =>
                     config'.pool_state.price_state.last_price_update = now]_vars

\* a swap processed a fill of the orders of the pool: its response starts with
\* the maker fee of the fill, sent before the return of the swap
C34_Witness ==
    /\ res.op = "swap" /\ res.err = "ok"
    /\ Len(res.msgs) >= 2
    /\ res.msgs[1].to = factory.fee_address /\ res.msgs[2].to = res.sender
    /\ ob_state.last_balances = sub /\ sub[1] > 0

\* a provide followed the swap that had processed the fill, on unchanged
\* subaccount balances, and sent nothing to the fee address
C34_WitnessFollowing ==
    /\ res.op = "provide_liquidity" /\ res.err = "ok"
    /\ SendsTo(res.msgs, factory.fee_address) = 0
    /\ res.prev.op = "swap" /\ Len(res.prev.msgs) >= 2
    /\ res.prev.msgs[1].to = factory.fee_address /\ res.prev.msgs[2].to = res.prev.sender
    /\ ob_state.last_balances = sub /\ sub[1] > 0

\* the step is a reconciliation of the begin blocker
BeginBlockerStep ==
    /\ res' = res /\ contract_active
    /\ ob_state' = reconciliation_done(ob_state, sub')

\* C36 : after every successful provide_liquidity, withdraw_liquidity or swap
\* the stored need_reconcile is true; it turns false only in a reconciliation
\* of the begin blocker or in a successful WithdrawFromOrderbook; update_config
\* leaves it as it is
C36_NeedReconcile ==
    [][/\ \A op \in {"provide_liquidity", "withdraw_liquidity", "swap"} :
            Succeeds(op) => ob_state'.need_reconcile
       /\ (ob_state.need_reconcile /\ ~ob_state'.need_reconcile) =>
            (BeginBlockerStep \/ Succeeds("withdraw_from_orderbook"))
       /\ Executes("update_config") =>
            ob_state'.need_reconcile = ob_state.need_reconcile]_vars

\* a swap asked for a reconciliation again after the begin blocker had done one
C36_Witness ==
    /\ res.op = "swap" /\ res.err = "ok"
    /\ ob_state.need_reconcile
    /\ sub[1] > 0 /\ ob_state.last_balances = sub

\* update_config succeeded on a reconciled pool and left the flag cleared
C36_WitnessUpdate ==
    /\ res.op = "update_config" /\ res.err = "ok"
    /\ ~ob_state.need_reconcile /\ sub[1] > 0

\* the balances of the pool after the refunds of the withdrawal of this step,
\* the second one repriced
RemainingAfterWithdraw ==
    <<query_pools(bank, sub)[1] - SentTo(res'.msgs, res'.sender, 1),
      MulRatio(query_pools(bank, sub)[2] - SentTo(res'.msgs, res'.sender, 2),
               config.pool_state.price_state.price_scale)>>

\* C35 : a successful balanced withdraw_liquidity changes one field of Config,
\* price_state.xcp_profit_real, which becomes xcp(D of the balances left after
\* the refund, price_scale) / (total_share - lp_amount); price_scale,
\* oracle_price, last_price, last_price_update, xcp_profit, the amp and gamma
\* fields and pool_params stay as they were
C35_WithdrawConfigFrame ==
    [][Succeeds("withdraw_liquidity") =>
         /\ res'.arg.assets = <<>>
         /\ config' = [config EXCEPT !.pool_state.price_state.xcp_profit_real =
                         (get_xcp(calc_d(RemainingAfterWithdraw,
                                         get_amp_gamma(config.pool_state, now)),
                                  config.pool_state.price_state.price_scale) * ONE)
                           \div (TotalShare(lp) - res'.arg.amount)]]_vars

\* a withdrawal moved xcp_profit_real away from xcp_profit
C35_Witness ==
    /\ res.op = "withdraw_liquidity" /\ res.err = "ok" /\ res.arg.amount > 1
    /\ config.pool_state.price_state.xcp_profit_real # config.pool_state.price_state.xcp_profit
    /\ config.pool_state.price_state.xcp_profit > 0

\* C37 : until a ClaimOwnership has succeeded config.owner is unset and the
\* factory owner, and nobody else, passes the owner check of update_config and
\* ProposeNewOwner; once config.owner is set it is the only address that passes
\* it, and the factory owner (a different address) is refused with Unauthorized
C37_OwnerReplacesFactoryOwner ==
    /\ config.owner = "none"
    /\ [][/\ config'.owner # config.owner => Succeeds("claim_ownership")
          /\ \A op \in {"update_config", "propose_new_owner"} :
               Executes(op) =>
                 IF config.owner = "none"
                 THEN res'.err = "Unauthorized" <=> res'.sender # factory.owner
                 ELSE /\ res'.err = "Unauthorized" <=> res'.sender # config.owner
                      /\ (res'.sender = factory.owner /\ factory.owner # config.owner) =>
                            /\ res'.err = "Unauthorized"
                            /\ UNCHANGED <<config, ob_state, proposal>>]_vars

\* the factory owner proposed an owner again after its first proposal had been
\* claimed, and was refused
C37_Witness ==
    /\ res.op = "propose_new_owner" /\ res.err = "Unauthorized"
    /\ res.sender = FactoryOwner
    /\ config.owner = "user1"
    /\ res.prev.op = "claim_ownership"

\* the owner that claimed the pool updated its parameters
C37_WitnessOwner ==
    /\ res.op = "update_config" /\ res.err = "ok"
    /\ res.sender = "user1" /\ config.owner = "user1"

\* C38 : the reply handler stores the LP token address only while
\* liquidity_token is empty; once it is set, a reply with the id of the token
\* instantiation and data fails with Unauthorized; a reply with another id or
\* without data fails with FailedToParseReply; no other message changes
\* liquidity_token, so it is set at most once
C38_TokenSetOnce ==
    [][/\ config'.pair_info.liquidity_token # config.pair_info.liquidity_token =>
            /\ Succeeds("reply")
            /\ config.pair_info.liquidity_token = ""
            /\ config'.pair_info.liquidity_token = res'.arg.data
            /\ config'.pair_info.liquidity_token # ""
       /\ Executes("reply") =>
            IF res'.arg.id # INSTANTIATE_TOKEN_REPLY_ID \/ res'.arg.data = "none"
            THEN res'.err = "FailedToParseReply" /\ config' = config
            ELSE config.pair_info.liquidity_token # "" =>
                    res'.err = "Unauthorized" /\ config' = config]_vars

\* a second reply with the address of another token was refused after
\* the first had set the LP token
C38_Witness ==
    /\ res.op = "reply" /\ res.err = "Unauthorized"
    /\ res.arg.data = "token2"
    /\ res.prev.op = "reply"
    /\ config.pair_info.liquidity_token = LpToken

\* liquidity was provided to the pool whose LP token a reply had set
C38_WitnessProvide ==
    /\ res.op = "provide_liquidity" /\ res.err = "ok"
    /\ res.prev.op = "reply"
    /\ config.pair_info.liquidity_token # ""

\* the swap of this step stored its trade in the precommit observation
PrecommitSaved == obs'.precommit # obs.precommit

\* the swap of this step updated the price: the price of the swap, taken on
\* the output before the maker fee, is the last price of this block
PriceUpdated(offer_ind, offer_amount, gross) ==
    /\ config'.pool_state.price_state.last_price_update = now
    /\ config'.pool_state.price_state.last_price =
          (IF offer_ind = 1 THEN (offer_amount * ONE) \div gross
           ELSE (gross * ONE) \div offer_amount)

\* C39 : a swap that stores a precommit observation (offer amount and return
\* amount both at least MIN_TRADE_SIZE) has updated the price; the price is
\* updated exactly when the offer amount and the return amount plus the maker
\* fee are both at least MIN_TRADE_SIZE, which a swap can meet without storing
\* an observation
C39_ObservationImpliesPriceUpdate ==
    [][Succeeds("swap") =>
         \A ask \in {3 - res'.arg.offer_ind} :
         \A dy \in {SentTo(res'.msgs, res'.sender, ask)} :
         \A maker_fee \in {SentTo(res'.msgs, factory.fee_address, ask)} :
            /\ PrecommitSaved <=>
                  (res'.arg.offer_amount >= MIN_TRADE_SIZE /\ dy >= MIN_TRADE_SIZE)
            /\ PrecommitSaved => PriceUpdated(res'.arg.offer_ind, res'.arg.offer_amount, dy + maker_fee)
            /\ IF res'.arg.offer_amount >= MIN_TRADE_SIZE /\ dy + maker_fee >= MIN_TRADE_SIZE
               THEN PriceUpdated(res'.arg.offer_ind, res'.arg.offer_amount, dy + maker_fee)
               ELSE config' = config]_vars

\* a swap stored an observation and updated the price
C39_Witness ==
    /\ res.op = "swap" /\ res.err = "ok"
    /\ obs.precommit.precommit_ts = now
    /\ obs.precommit.base_amount = res.arg.offer_amount
    /\ res.arg.offer_ind = 1 /\ res.arg.offer_amount >= MIN_TRADE_SIZE
    /\ obs.precommit.quote_amount >= MIN_TRADE_SIZE
    /\ config.pool_state.price_state.last_price # ONE

\* a swap updated the price and stored no observation: the return amount is
\* below MIN_TRADE_SIZE and reaches it with the maker fee
C39_WitnessConverse ==
    /\ res.op = "swap" /\ res.err = "ok"
    /\ res.arg.offer_amount >= MIN_TRADE_SIZE
    /\ res.msgs[1].amount < MIN_TRADE_SIZE
    /\ Len(res.msgs) = 2 /\ res.msgs[1].amount + res.msgs[2].amount >= MIN_TRADE_SIZE
    /\ obs.precommit = NoPrecommit
    /\ config.pool_state.price_state.last_price # ONE

\* C40 : a balanced withdrawal sent by a holder other than the pool never
\* fails on the subtraction of the refund from the pool balance or on a
\* division by zero; when it succeeds, for each asset the refund times
\* total_share is at most the pool balance times the LP amount, the LP supply
\* left is positive, and the pool balance per LP token left is not below the
\* one before
C40_WithdrawAtMostProRata ==
    [][(/\ Executes("withdraw_liquidity")
        /\ res'.arg.caller = LpToken /\ res'.arg.assets = <<>>) =>
          /\ res'.err \notin {"Overflow", "DivideByZero"}
          /\ res'.err = "ok" =>
                /\ res'.arg.total_share - res'.arg.amount > 0
                /\ TotalShare(lp') = res'.arg.total_share - res'.arg.amount
                /\ \A i \in {1, 2} :
                      \A refund \in {SentTo(res'.msgs, res'.sender, i)} :
                         /\ refund * res'.arg.total_share <= res'.arg.pools[i] * res'.arg.amount
                         /\ refund <= res'.arg.pools[i]
                         /\ query_pools(bank', sub')[i] = res'.arg.pools[i] - refund
                         /\ query_pools(bank', sub')[i] * res'.arg.total_share
                               >= res'.arg.pools[i] * TotalShare(lp')]_vars

\* the only provider withdrew all of its LP tokens: the supply left is the
\* minimum liquidity held by the pool, and the pool keeps a balance of both
\* assets
C40_Witness ==
    /\ res.op = "withdraw_liquidity" /\ res.err = "ok"
    /\ res.arg.amount = res.arg.total_share - MINIMUM_LIQUIDITY_AMOUNT
    /\ lp["user1"] = 0 /\ TotalShare(lp) = MINIMUM_LIQUIDITY_AMOUNT
    /\ bank[1] > 0 /\ bank[2] > 0

====
